---- MODULE Spec2Model ----
\* Client-side collab synchronisation core (SeqNumCounter, ObserveCollab) and
\* the publish duplicator (PublishCollabDuplicator) of AppFlowy-Cloud.
EXTENDS Integers, Sequences, FiniteSets, TLC

\* ---------------------------------------------------------------------------
\* Bounds of the model
\* ---------------------------------------------------------------------------
\* Sequence numbers the server sends are drawn from 1..MaxSeq and the largest
\* value of the counter type.
MaxSeq == 4

\* The counters are AtomicU32.  TLC's integers are 32 bit signed, so the width
\* is scaled to 30 bits; wrap-around at the largest value is kept.
U32Max == (2 ^ 30) - 1

SeqNums == (1 .. MaxSeq) \cup {U32Max}
U32Vals == (0 .. MaxSeq) \cup {U32Max}

\* Page mentions in the block deltas of one published document
MaxMentions == 2
\* Views of one published database, and row_orders of one view
MaxDbViews == 2
MaxRows == 2
\* Inbound messages one observer takes from its stream
MaxMsgs == 3
\* Catch-up tasks one observer spawns
MaxTasks == 2
\* Messages the application queues into one sink
MaxAppMsgs == 2
\* Inbound messages the observer takes where every step of the engine is traced
MaxEngineMsgs == 2
\* Threads that call the tracker at once, and calls of one thread
MaxCallers == 2
MaxChecks == 2
\* Distinct blobs a view is published with; comments on the published view
MaxBlobs == 2
MaxComments == 3

VARIABLES
  seq_num_counter,  \* SeqNumCounter: the three atomic counters
  debug_build,      \* TRUE: overflow checks on (arithmetic overflow panics)
  last_op,          \* the tracker operation called last, with its result
  pre,              \* the counters as they were before that operation
  chk_last,         \* what the last check_ack_broadcast_contiguous call saw
  chk_prev,         \* what the call of it before that one saw
  callers,          \* the threads inside check_ack_broadcast_contiguous
  collab_type,      \* SyncObject.collab_type
  folder_ok,        \* validate_data_for_folder succeeds on the replica
  collab_lock,      \* TRUE: the replica's mutex is held by the application
  collab_updates,   \* number of updates applied to the replica
  observer,         \* observer_collab_message: "running", "stopped", "panicked"
  sink_queue,       \* CollabSink: staged outbound messages, oldest first
  msg_id_counter,   \* CollabSink: the last msg_id handed out
  tasks,            \* the spawned catch-up tasks, in spawn order
  received,         \* number of inbound items taken from the stream
  last,             \* digest of the inbound message processed last
  bt,               \* history of a stream made of broadcasts only
  s2,               \* history of an ack followed by its broadcast
  app_queued,       \* number of messages the application has queued
  dup_pc,           \* PublishCollabDuplicator: "idle", "copy", "done"
  root,             \* the arguments of deep_copy
  dup_result,       \* what deep_copy returned: "none" while it runs
  published,        \* the published data of each source view
  duplicated_refs,  \* duplicated_refs
  views_to_add,     \* views_to_add
  workspace_databases, \* workspace_databases, in insertion order
  stack,            \* the deep_copy_txn calls in progress, innermost last
  ret,              \* the value the innermost finished call returned
  inserted,         \* the collabs given to insert_collab_for_duplicator, in order
  copied,           \* how often deep_copy_txn found published data, per source view
  uuid_counter,     \* number of uuids drawn
  folder,           \* the destination folder, its persisting and broadcasts
  publish_table,    \* the published collabs of the workspace, one row per view
  publish_hist,     \* per view, what the last publish or unpublish call did to it
  comments,         \* the comments on the published view, oldest first
  response,         \* the last API call and what it returned
  collab_arc        \* TRUE while the application holds its Arc of the replica

trackerVars == <<seq_num_counter, debug_build>>
seqHist == <<last_op, pre, chk_last, chk_prev, callers>>
obsVars == <<collab_type, folder_ok, collab_lock, collab_updates, observer,
             sink_queue, msg_id_counter, tasks, received, last, bt, s2, app_queued>>
dupVars == <<dup_pc, dup_result, root, published, duplicated_refs, views_to_add,
             workspace_databases, stack, ret, inserted, copied, uuid_counter, folder>>
publishVars == <<publish_table, publish_hist, comments, response>>
appVars == <<collab_arc>>
vars == <<trackerVars, seqHist, obsVars, dupVars, publishVars, appVars>>

\* ---------------------------------------------------------------------------
\* SyncError values (uniform records; x, y carry the reason's two numbers)
\* ---------------------------------------------------------------------------
\* state_vector_v1: None
NoStateVector == [some |-> FALSE, v |-> <<>>]
Ok == [err |-> "Ok", reason |-> "", x |-> 0, y |-> 0, sv |-> NoStateVector]
Panic == [err |-> "Panic", reason |-> "", x |-> 0, y |-> 0, sv |-> NoStateVector]
MissUpdates(reason, x, y) ==
  [err |-> "MissUpdates", reason |-> reason, x |-> x, y |-> y, sv |-> NoStateVector]
\* MissUpdates { state_vector_v1: Some(ack.payload), reason: ServerMissUpdates }
ServerMissUpdates(payload) ==
  [err |-> "MissUpdates", reason |-> "ServerMissUpdates", x |-> 0, y |-> 0,
   sv |-> [some |-> TRUE, v |-> payload]]
CannotApplyUpdate ==
  [err |-> "CannotApplyUpdate", reason |-> "", x |-> 0, y |-> 0, sv |-> NoStateVector]
OverrideWithIncorrectData ==
  [err |-> "OverrideWithIncorrectData", reason |-> "", x |-> 0, y |-> 0,
   sv |-> NoStateVector]
Internal == [err |-> "Internal", reason |-> "", x |-> 0, y |-> 0, sv |-> NoStateVector]
\* The error a frame that does not decode, or that the library rejects, is
\* converted to by `?`
ProtocolError ==
  [err |-> "ProtocolError", reason |-> "", x |-> 0, y |-> 0, sv |-> NoStateVector]

\* ---------------------------------------------------------------------------
\* SeqNumCounter
\* ---------------------------------------------------------------------------
SeqNumCounterDefault ==
  [broadcast_seq_counter |-> 0, ack_seq_counter |-> 0, miss_update_counter |-> 0]

\* u32 addition as a release build computes it
wrapping_add(a, b) == (a + b) % (U32Max + 1)

\* The mutant of store_ack_seq_num: broadcast_seq is set whatever it was
store_ack_seq_num_always_bootstraps(c, seq_num) ==
  [c EXCEPT !.broadcast_seq_counter = seq_num, !.ack_seq_counter = seq_num]

\* store_ack_seq_num with a compare-and-swap upward only: a lower seq_num
\* leaves ack_seq_counter as it is
store_ack_seq_num_keeps_higher(c, seq_num) ==
  LET c1 == IF c.broadcast_seq_counter = 0
            THEN [c EXCEPT !.broadcast_seq_counter = seq_num]
            ELSE c
  IN IF seq_num >= c1.ack_seq_counter
     THEN [c1 EXCEPT !.ack_seq_counter = seq_num]
     ELSE c1

\* What store_ack_seq_num returns: prev of Ok(prev) and of Err(prev)
store_ack_seq_num_returns(c, seq_num) ==
  IF seq_num >= c.ack_seq_counter
  THEN c.ack_seq_counter
  ELSE c.ack_seq_counter

\* fetch_update(|current| if seq_num >= current {Some(seq_num)} else {None}),
\* and the store in the Err arm
store_ack_seq_num(c, seq_num) ==
  LET c1 == IF c.broadcast_seq_counter = 0
            THEN [c EXCEPT !.broadcast_seq_counter = seq_num]
            ELSE c
  IN IF seq_num >= c1.ack_seq_counter
     THEN [c1 EXCEPT !.ack_seq_counter = seq_num]
     ELSE [c1 EXCEPT !.ack_seq_counter = seq_num]

store_broadcast_seq_num(c, broadcast_seq_num) ==
  IF broadcast_seq_num >= c.broadcast_seq_counter
  THEN [c EXCEPT !.broadcast_seq_counter = broadcast_seq_num]
  ELSE [c EXCEPT !.broadcast_seq_counter = broadcast_seq_num]

\* `current > 0 && broadcast_seq_num > current + 1`: the sum is evaluated only
\* when current > 0; at the largest value it overflows, which panics in a build
\* with overflow checks and wraps to 0 otherwise.
check_broadcast_contiguous(c, broadcast_seq_num, dbg) ==
  LET current == c.broadcast_seq_counter IN
  IF current > 0 /\ current = U32Max /\ dbg
  THEN Panic
  ELSE IF current > 0 /\ broadcast_seq_num > wrapping_add(current, 1)
       THEN MissUpdates("BroadcastSeqNotContinuous", current, broadcast_seq_num)
       ELSE Ok

\* The counter reaches this many strikes and the fault is raised
StrikeLimit == 2

\* check_ack_broadcast_contiguous without the store of 0 to miss_update_counter
check_ack_broadcast_contiguous_no_reset(c) ==
  LET ack_seq_num == c.ack_seq_counter
      broadcast_seq_num == c.broadcast_seq_counter
  IN IF ack_seq_num > broadcast_seq_num
     THEN LET old == c.miss_update_counter
              c1 == [c EXCEPT !.miss_update_counter = wrapping_add(old, 1)]
          IN IF old + 1 >= StrikeLimit
             THEN << [c1 EXCEPT !.broadcast_seq_counter = ack_seq_num],
                     MissUpdates("AckSeqAdvanceBroadcastSeq",
                                 ack_seq_num, broadcast_seq_num) >>
             ELSE <<c1, Ok>>
     ELSE <<c, Ok>>

\* Returns <<counter after the call, result>>
check_ack_broadcast_contiguous(c) ==
  LET ack_seq_num == c.ack_seq_counter
      broadcast_seq_num == c.broadcast_seq_counter
  IN IF ack_seq_num > broadcast_seq_num
     THEN LET old == c.miss_update_counter
              c1 == [c EXCEPT !.miss_update_counter = wrapping_add(old, 1)]
          IN IF old + 1 >= StrikeLimit
             THEN << [c1 EXCEPT !.miss_update_counter = 0,
                                !.broadcast_seq_counter = ack_seq_num],
                     MissUpdates("AckSeqAdvanceBroadcastSeq",
                                 ack_seq_num, broadcast_seq_num) >>
             ELSE <<c1, Ok>>
     ELSE <<c, Ok>>

\* ---------------------------------------------------------------------------
\* The tracker's operations called directly, one call per step
\* ---------------------------------------------------------------------------
NoCheck == [seen |-> FALSE, lead |-> FALSE, strikes |-> 0]
\* val is the u32 a store returns
NoOp == [op |-> "none", arg |-> 0, ret |-> Ok, val |-> 0]

\* A thread outside check_ack_broadcast_contiguous
IdleCaller ==
  [pc |-> "idle", ack_seq_num |-> 0, broadcast_seq_num |-> 0, calls |-> 0,
   ret |-> "none"]

InitTracker ==
  /\ seq_num_counter = SeqNumCounterDefault
  /\ callers = [t \in 1 .. MaxCallers |-> IdleCaller]
  /\ debug_build \in BOOLEAN
  /\ last_op = NoOp
  /\ pre = SeqNumCounterDefault
  /\ chk_last = NoCheck
  /\ chk_prev = NoCheck

StoreAck(n) ==
  /\ seq_num_counter' = store_ack_seq_num(seq_num_counter, n)
  /\ last_op' = [op |-> "store_ack_seq_num", arg |-> n, ret |-> Ok,
                 val |-> store_ack_seq_num_returns(seq_num_counter, n)]
  /\ pre' = seq_num_counter
  /\ UNCHANGED <<debug_build, chk_last, chk_prev, callers, obsVars, dupVars, publishVars, appVars>>

StoreBroadcast(n) ==
  /\ seq_num_counter' = store_broadcast_seq_num(seq_num_counter, n)
  /\ last_op' = [op |-> "store_broadcast_seq_num", arg |-> n, ret |-> Ok,
                 val |-> seq_num_counter.broadcast_seq_counter]
  /\ pre' = seq_num_counter
  /\ UNCHANGED <<debug_build, chk_last, chk_prev, callers, obsVars, dupVars, publishVars, appVars>>

CheckBroadcast(n) ==
  /\ last_op' = [op |-> "check_broadcast_contiguous", arg |-> n,
                 ret |-> check_broadcast_contiguous(seq_num_counter, n, debug_build),
                 val |-> 0]
  /\ pre' = seq_num_counter
  /\ UNCHANGED <<seq_num_counter, debug_build, chk_last, chk_prev, callers, obsVars,
                 dupVars, publishVars, appVars>>

CheckAckBroadcast ==
  LET r == check_ack_broadcast_contiguous(seq_num_counter) IN
  /\ seq_num_counter' = r[1]
  /\ last_op' = [op |-> "check_ack_broadcast_contiguous", arg |-> 0,
                 ret |-> r[2], val |-> 0]
  /\ pre' = seq_num_counter
  /\ chk_prev' = chk_last
  /\ chk_last' = [seen |-> TRUE,
                  lead |-> seq_num_counter.ack_seq_counter
                             > seq_num_counter.broadcast_seq_counter,
                  strikes |-> seq_num_counter.miss_update_counter]
  /\ UNCHANGED <<debug_build, callers, obsVars, dupVars, publishVars, appVars>>

NextSeq ==
  \/ \E n \in SeqNums : StoreAck(n)
  \/ \E n \in SeqNums : StoreBroadcast(n)
  \/ \E n \in SeqNums : CheckBroadcast(n)
  \/ CheckAckBroadcast

\* ---------------------------------------------------------------------------
\* check_ack_broadcast_contiguous, one atomic operation per step
\* ---------------------------------------------------------------------------
\* let ack_seq_num = self.ack_seq_counter.load(..)
CheckLoadAck(t) ==
  /\ callers[t].pc = "idle"
  /\ callers[t].calls < MaxChecks
  /\ callers' = [callers EXCEPT ![t].pc = "ack loaded",
                                ![t].calls = @ + 1,
                                ![t].ret = "none",
                                ![t].ack_seq_num = seq_num_counter.ack_seq_counter]
  /\ UNCHANGED <<trackerVars, last_op, pre, chk_last, chk_prev, obsVars, dupVars, publishVars,
            appVars>>

\* let broadcast_seq_num = self.broadcast_seq_counter.load(..), and the
\* comparison of the two
CheckLoadBroadcast(t) ==
  /\ callers[t].pc = "ack loaded"
  /\ LET b == seq_num_counter.broadcast_seq_counter IN
     callers' = [callers EXCEPT
                   ![t] = IF callers[t].ack_seq_num > b
                          THEN [@ EXCEPT !.pc = "leads", !.broadcast_seq_num = b]
                          ELSE [IdleCaller EXCEPT !.calls = callers[t].calls,
                                                  !.ret = "Ok"]]
  /\ UNCHANGED <<trackerVars, last_op, pre, chk_last, chk_prev, obsVars, dupVars, publishVars,
            appVars>>

\* let old = self.miss_update_counter.fetch_add(1, ..), and old + 1 >= 2
CheckFetchAdd(t) ==
  /\ callers[t].pc = "leads"
  /\ LET old == seq_num_counter.miss_update_counter IN
     /\ seq_num_counter' = [seq_num_counter EXCEPT !.miss_update_counter = old + 1]
     /\ callers' = [callers EXCEPT
                      ![t] = IF old + 1 >= StrikeLimit
                             THEN [@ EXCEPT !.pc = "second strike"]
                             ELSE [IdleCaller EXCEPT !.calls = callers[t].calls,
                                                     !.ret = "Ok"]]
  /\ UNCHANGED <<debug_build, last_op, pre, chk_last, chk_prev, obsVars, dupVars, publishVars,
            appVars>>

\* self.miss_update_counter.store(0, ..)
CheckResetStrikes(t) ==
  /\ callers[t].pc = "second strike"
  /\ seq_num_counter' = [seq_num_counter EXCEPT !.miss_update_counter = 0]
  /\ callers' = [callers EXCEPT ![t].pc = "strikes reset"]
  /\ UNCHANGED <<debug_build, last_op, pre, chk_last, chk_prev, obsVars, dupVars, publishVars,
            appVars>>

\* self.broadcast_seq_counter.store(ack_seq_num, ..); return Err(MissUpdates)
CheckStoreBroadcast(t) ==
  /\ callers[t].pc = "strikes reset"
  /\ seq_num_counter' = [seq_num_counter EXCEPT
                           !.broadcast_seq_counter = callers[t].ack_seq_num]
  /\ callers' = [callers EXCEPT
                   ![t] = [IdleCaller EXCEPT !.calls = callers[t].calls,
                                             !.ret = "MissUpdates"]]
  /\ UNCHANGED <<debug_build, last_op, pre, chk_last, chk_prev, obsVars, dupVars, publishVars,
            appVars>>

\* store_ack_seq_num and store_broadcast_seq_num called by another thread
ConcurrentStoreAck(n) ==
  /\ seq_num_counter' = store_ack_seq_num(seq_num_counter, n)
  /\ UNCHANGED <<debug_build, seqHist, obsVars, dupVars, publishVars, appVars>>

ConcurrentStoreBroadcast(n) ==
  /\ seq_num_counter' = store_broadcast_seq_num(seq_num_counter, n)
  /\ UNCHANGED <<debug_build, seqHist, obsVars, dupVars, publishVars, appVars>>

\* Threads in check_ack_broadcast_contiguous beside stores of acks and
\* broadcasts
NextConcurrent ==
  \/ \E n \in 1 .. MaxSeq : ConcurrentStoreAck(n)
  \/ \E n \in 1 .. MaxSeq : ConcurrentStoreBroadcast(n)
  \/ \E t \in 1 .. MaxCallers : CheckLoadAck(t)
  \/ \E t \in 1 .. MaxCallers : CheckLoadBroadcast(t)
  \/ \E t \in 1 .. MaxCallers : CheckFetchAdd(t)
  \/ \E t \in 1 .. MaxCallers : CheckResetStrikes(t)
  \/ \E t \in 1 .. MaxCallers : CheckStoreBroadcast(t)


\* ---------------------------------------------------------------------------
\* Inbound messages (ServerCollabMessage) and protocol frames
\* ---------------------------------------------------------------------------
SyncStep1 == [kind |-> "SyncStep1", reply |-> TRUE]
SyncStep2 == [kind |-> "SyncStep2", reply |-> FALSE]
Update == [kind |-> "Update", reply |-> FALSE]
AwarenessQuery == [kind |-> "Awareness", reply |-> TRUE]
\* An update on which the library panics while it is applied
PanickingUpdate == [kind |-> "PanickingUpdate", reply |-> FALSE]
\* An update the library returns an error for, and bytes that decode to no frame
FailingUpdate == [kind |-> "FailingUpdate", reply |-> FALSE]
Undecodable == [kind |-> "Undecodable", reply |-> FALSE]

\* The payloads the server sends: none, one frame, two frames
Payloads ==
  { <<>>, <<SyncStep1>>, <<Update, SyncStep1>>, <<AwarenessQuery>>,
    <<PanickingUpdate>> }

AckCodes == {"Success", "CannotApplyUpdate", "MissUpdate"}

ServerBroadcast(seq_num, payload) ==
  [kind |-> "ServerBroadcast", seq_num |-> seq_num, code |-> "", msg_id |-> 0,
   payload |-> payload]
ServerAwareness(payload) ==
  [kind |-> "ServerAwareness", seq_num |-> 0, code |-> "", msg_id |-> 0,
   payload |-> payload]
ServerInit(msg_id, payload) ==
  [kind |-> "ServerInit", seq_num |-> 0, code |-> "", msg_id |-> msg_id,
   payload |-> payload]
ClientAck(msg_id, code, seq_num) ==
  [kind |-> "ClientAck", seq_num |-> seq_num, code |-> code, msg_id |-> msg_id,
   payload |-> <<>>]
\* An ack that carries a payload (with code MissUpdate: the state vector)
ClientAckWith(msg_id, code, seq_num, payload) ==
  [kind |-> "ClientAck", seq_num |-> seq_num, code |-> code, msg_id |-> msg_id,
   payload |-> payload]

\* msg.msg_id(): None for ServerBroadcast and ServerAwareness
has_msg_id(msg) == msg.kind \in {"ServerInit", "ClientAck"}

\* ---------------------------------------------------------------------------
\* CollabSink (its code is outside the sources at hand)
\* ---------------------------------------------------------------------------
\* The mutant of queue_msg: the msg_id counter is not advanced
queue_msg_same_id(w, kind) ==
  [w EXCEPT !.queue = Append(w.queue, [kind |-> kind, msg_id |-> w.next_id]),
            !.trace = Append(w.trace, [ev |-> "queue", kind |-> kind])]

\* queue_msg(build): a new msg_id, build(msg_id), stage the message.
\* w is the working state [updates, queue, next_id, trace] of one message's
\* handling; trace lists what was done for the message, in order.
queue_msg(w, kind) ==
  [w EXCEPT !.next_id = w.next_id + 1,
            !.queue = Append(w.queue, [kind |-> kind, msg_id |-> w.next_id + 1]),
            !.trace = Append(w.trace, [ev |-> "queue", kind |-> kind])]

IsInitSync(m) == m.kind \in {"ServerInitSync", "ClientInitSync"}

\* validate_response: an ack's seq_num goes through store_ack_seq_num and
\* check_ack_broadcast_contiguous; the message is valid when its msg_id is
\* that of the oldest outstanding message, which it then settles.
validate_response(w, c, msg) ==
  LET c1 == IF msg.kind = "ClientAck" THEN store_ack_seq_num(c, msg.seq_num) ELSE c
      r == IF msg.kind = "ClientAck"
           THEN check_ack_broadcast_contiguous(c1)
           ELSE <<c1, Ok>>
      is_valid == /\ r[2].err = "Ok"
                  /\ w.queue # <<>>
                  /\ Head(w.queue).msg_id = msg.msg_id
  IN [c |-> r[1], res |-> r[2], is_valid |-> is_valid,
      w |-> IF is_valid THEN [w EXCEPT !.queue = Tail(w.queue)] ELSE w]

\* start_sync: read the local state vector, build a SyncStep1 with it and
\* queue it as the init sync.
start_sync(w, reason) ==
  queue_msg([w EXCEPT !.trace = Append(w.trace, [ev |-> "start_sync", kind |-> reason])],
            "ClientInitSync")

\* The CannotApplyUpdate arm with the lock awaited
on_cannot_apply_update_blocking(w, locked) ==
  start_sync(w, "ServerCannotApplyUpdate")

\* The CannotApplyUpdate arm of the observer: collab.try_lock(), and
\* start_sync under the guard
on_cannot_apply_update(w, locked) ==
  IF locked THEN w ELSE start_sync(w, "ServerCannotApplyUpdate")

\* ---------------------------------------------------------------------------
\* The protocol engine
\* ---------------------------------------------------------------------------
\* handle_message_follow_protocol: SyncStep2 and Update change the replica; the
\* frame says whether the library returns a reply payload.
handle_message_follow_protocol(w, frame) ==
  IF frame.kind \in {"SyncStep2", "Update"}
  THEN [w EXCEPT !.updates = w.updates + 1,
                 !.trace = Append(w.trace, [ev |-> "apply", kind |-> frame.kind])]
  ELSE [w EXCEPT !.trace = Append(w.trace, [ev |-> "apply", kind |-> frame.kind])]

\* The folder guard left out
folder_guard_never_fails(frame, ctype, ok) == FALSE

\* The folder guard in front of an inbound SyncStep1
folder_guard_fails(frame, ctype, ok) ==
  frame.kind = "SyncStep1" /\ ctype = "Folder" /\ ~ok

\* The reply is queued as an update sync whatever the frame was
wrap_reply_as_update_sync(w, is_server_sync_step_1) ==
  queue_msg(w, "ClientUpdateSync")

\* sink.queue_msg(|msg_id| ..): new_server_init_sync(ServerInit::new(..)) for
\* the reply to a SyncStep1, new_update_sync(UpdateSync::new(..)) otherwise
wrap_reply(w, is_server_sync_step_1) ==
  queue_msg(w, IF is_server_sync_step_1 THEN "ServerInitSync" ELSE "ClientUpdateSync")

\* The loop over the frames of one payload, under the replica's lock
RECURSIVE apply_frames(_, _, _, _)
apply_frames(frames, w, ctype, ok) ==
  IF frames = <<>>
  THEN [w |-> w, res |-> Ok]
  ELSE LET frame == Head(frames)
           is_server_sync_step_1 == frame.kind = "SyncStep1"
       IN IF frame.kind = "Undecodable"
          THEN \* let msg = yrs_message?
               [w |-> w, res |-> ProtocolError]
          ELSE IF folder_guard_fails(frame, ctype, ok)
          THEN [w |-> w, res |-> OverrideWithIncorrectData]
          ELSE IF frame.kind = "PanickingUpdate"
          THEN \* the spawned task panics; the join error becomes Internal
               [w |-> w, res |-> Internal]
          ELSE IF frame.kind = "FailingUpdate"
          THEN \* handle_message_follow_protocol(..)?
               [w |-> w, res |-> ProtocolError]
          ELSE LET w1 == handle_message_follow_protocol(w, frame)
                   w2 == IF frame.reply
                         THEN wrap_reply(w1, is_server_sync_step_1)
                         ELSE w1
               IN apply_frames(Tail(frames), w2, ctype, ok)

\* An empty payload and a busy replica lock both return Ok with nothing done
process_message_follow_protocol(msg, w, ctype, ok, locked) ==
  IF msg.payload = <<>>
  THEN [w |-> w, res |-> Ok]
  ELSE IF locked
       THEN [w |-> w, res |-> Ok]
       ELSE apply_frames(msg.payload, w, ctype, ok)

\* What the observer does with the tracker for a broadcast it has applied:
\* the check's error returns before the store
on_broadcast_seq(c, seq_num, dbg) ==
  LET r == check_broadcast_contiguous(c, seq_num, dbg) IN
  IF r.err # "Ok"
  THEN [c |-> c, res |-> r]
  ELSE [c |-> store_broadcast_seq_num(c, seq_num), res |-> Ok]

\* The ack's code is not looked at
ack_code_error_ignored(msg) == Ok

\* The code of a ClientAck, looked at before anything else is done with it
ack_code_error(msg) ==
  IF msg.kind = "ClientAck" /\ msg.code = "CannotApplyUpdate"
  THEN CannotApplyUpdate
  ELSE IF msg.kind = "ClientAck" /\ msg.code = "MissUpdate"
  THEN ServerMissUpdates(msg.payload)
  ELSE Ok

\* process_remote_message: [c, w, res, checked, notified, validated]; checked
\* says that a broadcast got as far as check_broadcast_contiguous, notified
\* that sink.notify_next() was called, validated what validate_response
\* returned ("not called" when it was not)
process_remote_message(msg, c, w, ctype, ok, locked, dbg) ==
  IF ack_code_error(msg).err # "Ok"
  THEN [c |-> c, w |-> w, res |-> ack_code_error(msg), checked |-> FALSE,
        notified |-> FALSE, validated |-> "not called"]
  ELSE IF ~has_msg_id(msg)
  THEN LET p == process_message_follow_protocol(msg, w, ctype, ok, locked) IN
       IF p.res.err # "Ok"
       THEN [c |-> c, w |-> p.w, res |-> p.res, checked |-> FALSE,
             notified |-> FALSE, validated |-> "not called"]
       ELSE IF msg.kind = "ServerBroadcast"
            THEN LET b == on_broadcast_seq(c, msg.seq_num, dbg) IN
                 [c |-> b.c, w |-> p.w, res |-> b.res, checked |-> TRUE,
                  notified |-> TRUE, validated |-> "not called"]
            ELSE [c |-> c, w |-> p.w, res |-> Ok, checked |-> FALSE,
                  notified |-> TRUE, validated |-> "not called"]
  ELSE LET v == validate_response(w, c, msg) IN
       IF v.res.err # "Ok"
       THEN [c |-> v.c, w |-> v.w, res |-> v.res, checked |-> FALSE,
             notified |-> FALSE, validated |-> "error"]
       ELSE IF v.is_valid
            THEN LET p == process_message_follow_protocol(msg, v.w, ctype, ok, locked)
                 IN [c |-> v.c, w |-> p.w, res |-> p.res, checked |-> FALSE,
                     notified |-> p.res.err = "Ok", validated |-> "true"]
            ELSE [c |-> v.c, w |-> v.w, res |-> Ok, checked |-> FALSE,
                  notified |-> TRUE, validated |-> "false"]

\* ---------------------------------------------------------------------------
\* History kept beside the observer
\* ---------------------------------------------------------------------------
\* What the observer did with the inbound message it took last: the message,
\* the result, the messages queued and updates applied for it, the trace of
\* its handling, whether the replica's lock was busy, whether a catch-up was
\* spawned, the error of the message before it, and the start_sync calls the
\* observer made for it
NoLast ==
  [kind |-> "none", seq_num |-> 0, code |-> "", payload |-> <<>>, res |-> Ok,
   enq |-> 0, applied |-> 0, trace |-> <<>>, notified |-> FALSE,
   validated |-> "not called", checked |-> FALSE, locked |-> FALSE,
   spawned |-> FALSE, prev |-> "none", msg_id |-> 0, owed |-> 0, sync |-> <<>>]

\* Events of a trace that hand a frame to the library
Applied(trace) == SelectSeq(trace, LAMBDA e : e.ev = "apply")

\* The frames of the payload that handling the message has left unapplied
\* although it returned Ok: none when the message was not meant to be applied
\* (a response that validate_response rejected)
frames_owed(msg, r) ==
  IF r.res.err = "Ok" /\ r.validated # "false"
  THEN Len(msg.payload) - Len(Applied(r.w.trace))
  ELSE 0

BtInit == [on |-> TRUE, max |-> 0, prev |-> 0, shape |-> "none", lo |-> 0, hi |-> 0,
           noskip |-> TRUE, nfault |-> 0, fx |-> 0, fy |-> 0]
BtOff == [on |-> FALSE, max |-> 0, prev |-> 0, shape |-> "off", lo |-> 0, hi |-> 0,
          noskip |-> FALSE, nfault |-> 0, fx |-> 0, fy |-> 0]

\* The stream so far is broadcasts only, each applied and handed to the check:
\* max is the largest seq_num delivered, prev the one delivered last; noskip
\* says that no seq_num exceeded the largest before it by more than one; shape
\* is "contig" while each seq_num is the one before it plus one, "oneskip" once
\* exactly one number (between lo and hi) has been skipped.
bt_next(b, msg, r) ==
  IF ~b.on \/ msg.kind # "ServerBroadcast" \/ ~r.checked
  THEN BtOff
  ELSE LET n == msg.seq_num
           noskip == b.noskip /\ (b.max = 0 \/ n <= b.max + 1)
           shape == IF b.shape = "none" THEN "contig"
                    ELSE IF b.shape \in {"contig", "oneskip"} /\ n = b.prev + 1
                    THEN b.shape
                    ELSE IF b.shape = "contig" /\ n = b.prev + 2 THEN "oneskip"
                    ELSE "other"
           gap == r.res.reason = "BroadcastSeqNotContinuous"
       IN IF ~noskip /\ shape = "other"
          THEN BtOff
          ELSE [on |-> TRUE,
                max |-> IF n > b.max THEN n ELSE b.max,
                prev |-> n,
                shape |-> shape,
                lo |-> IF b.shape = "contig" /\ shape = "oneskip" THEN b.prev ELSE b.lo,
                hi |-> IF b.shape = "contig" /\ shape = "oneskip" THEN n ELSE b.hi,
                noskip |-> noskip,
                nfault |-> IF gap /\ b.nfault < 2 THEN b.nfault + 1 ELSE b.nfault,
                fx |-> IF gap /\ b.nfault = 0 THEN r.res.x ELSE b.fx,
                fy |-> IF gap /\ b.nfault = 0 THEN r.res.y ELSE b.fy]

S2Idle == [phase |-> 0, k |-> 0, fault |-> FALSE]

\* phase 1: with ack_seq <= broadcast_seq = k > 0 and no strike, an ack with
\* seq_num k + 1 was handled; phase 2: the broadcast k + 1 was handled next.
s2_next(m, msg, c, r) ==
  IF /\ msg.kind = "ClientAck" /\ msg.code = "Success"
     /\ c.broadcast_seq_counter > 0
     /\ c.ack_seq_counter <= c.broadcast_seq_counter
     /\ c.miss_update_counter = 0
     /\ msg.seq_num = c.broadcast_seq_counter + 1
  THEN [phase |-> 1, k |-> c.broadcast_seq_counter, fault |-> r.res.err # "Ok"]
  ELSE IF /\ m.phase = 1 /\ msg.kind = "ServerBroadcast"
          /\ msg.seq_num = m.k + 1 /\ r.checked
       THEN [phase |-> 2, k |-> m.k, fault |-> m.fault \/ r.res.err # "Ok"]
       ELSE S2Idle

\* ---------------------------------------------------------------------------
\* The observer loop and the catch-up tasks
\* ---------------------------------------------------------------------------
\* tokio::time::sleep(Duration::from_secs(3))
Debounce == 3

\* A task: st is "debounce" (in select!), "cancelled" (left by the token's
\* branch), "pulling" (left by the sleep's branch, in pull_missing_updates) or
\* "done"; timer counts the seconds slept; cancelled is its token's state;
\* sup is the timer's value when the next fault came (-1: none came); synced
\* is set when its pull_missing_updates has called start_sync.
NewTask == [st |-> "debounce", timer |-> 0, cancelled |-> FALSE, sup |-> -1,
            synced |-> FALSE]

\* spawn_catch_up without cancel_token_lock.cancel()
spawn_catch_up_no_cancel(ts) ==
  LET n == Len(ts)
      old == IF n = 0 THEN ts ELSE [ts EXCEPT ![n].sup = ts[n].timer]
  IN Append(old, NewTask)

\* cancel_token_lock.cancel(); *cancel_token_lock = new token; tokio::spawn
spawn_catch_up(ts) ==
  LET n == Len(ts)
      old == IF n = 0 THEN ts
             ELSE [ts EXCEPT ![n].cancelled = TRUE, ![n].sup = ts[n].timer]
  IN Append(old, NewTask)

\* observer_after without the break of the OverrideWithIncorrectData arm
observer_after_no_break(err) ==
  IF err = "Panic" THEN "panicked" ELSE "running"

\* observer_after with a break on every error that is not handled by a
\* catch-up or an init sync
observer_after_break_on_other(err) ==
  IF err \in {"OverrideWithIncorrectData", "Internal", "ProtocolError"} THEN "stopped"
  ELSE IF err = "Panic" THEN "panicked"
  ELSE "running"

\* The match on the error of process_remote_message: what becomes of the loop
observer_after(err) ==
  IF err = "OverrideWithIncorrectData" THEN "stopped"
  ELSE IF err = "Panic" THEN "panicked"
  ELSE "running"

\* The msg_ids the server answers with: that of the oldest outstanding message
\* and one that is not outstanding
InboundIds(q) == {0} \cup (IF q = <<>> THEN {} ELSE {Head(q).msg_id})

\* The inbound messages of the observer's specification: every kind, every
\* payload; the sequence numbers are the lowest and the highest of 1..MaxSeq
Messages(q) ==
  {ServerBroadcast(n, p) : n \in {1, MaxSeq}, p \in {<<>>, <<SyncStep1>>}}
    \cup {ServerAwareness(<<AwarenessQuery>>)}
    \cup {ServerInit(i, p) : i \in InboundIds(q), p \in Payloads}
    \cup {ClientAck(i, "Success", n) : i \in InboundIds(q), n \in {1, MaxSeq}}
    \cup {ClientAck(0, code, 1) : code \in {"CannotApplyUpdate", "MissUpdate"}}

\* The inbound messages of the stream specification: every sequence number,
\* on broadcasts and on acks
StreamMessages(q) ==
  {ServerBroadcast(n, p) : n \in SeqNums, p \in {<<>>, <<Update>>}}
    \cup {ClientAck(i, "Success", n) : i \in InboundIds(q), n \in SeqNums}
    \cup {ClientAck(0, code, 1) : code \in {"CannotApplyUpdate", "MissUpdate"}}

\* A task holds the Arc clones of replica and sink that were moved into it
\* until it ends
holds_collab(t) == t.st \in {"debounce", "pulling"}

\* Arc::strong_count of the replica between two turns of the loop: the
\* application's Arc and the clones held by the spawned tasks
strong_count ==
  (IF collab_arc THEN 1 ELSE 0)
    + Cardinality({i \in 1 .. Len(tasks) : holds_collab(tasks[i])})

\* One turn of the loop in observer_collab_message for an Ok item of the
\* stream, the observer taking at most limit items; with full set, the history
\* also keeps the msg_id, the state of the lock, the error of the message
\* before and the frames owed
ReceiveWith(msg, limit, full) ==
  /\ observer = "running"
  /\ received < limit
  /\ strong_count > 0
  /\ LET w0 == [updates |-> collab_updates, queue |-> sink_queue,
                next_id |-> msg_id_counter, trace |-> <<>>]
         r == process_remote_message(msg, seq_num_counter, w0, collab_type,
                                     folder_ok, collab_lock, debug_build)
         w1 == IF r.res.err = "CannotApplyUpdate"
               THEN on_cannot_apply_update(r.w, collab_lock)
               ELSE r.w
     IN /\ r.res.err = "MissUpdates" => Len(tasks) < MaxTasks
        /\ seq_num_counter' = r.c
        /\ collab_updates' = w1.updates
        /\ sink_queue' = w1.queue
        /\ msg_id_counter' = w1.next_id
        /\ tasks' = IF r.res.err = "MissUpdates" THEN spawn_catch_up(tasks) ELSE tasks
        /\ observer' = observer_after(r.res.err)
        /\ last' = [kind |-> msg.kind, seq_num |-> msg.seq_num, code |-> msg.code,
                    payload |-> msg.payload, res |-> r.res,
                    enq |-> w1.next_id - msg_id_counter,
                    applied |-> w1.updates - collab_updates,
                    trace |-> r.w.trace, notified |-> r.notified,
                    validated |-> r.validated, checked |-> r.checked,
                    locked |-> full /\ collab_lock,
                    sync |-> SelectSeq(w1.trace, LAMBDA e : e.ev = "start_sync"),
                    spawned |-> r.res.err = "MissUpdates",
                    prev |-> IF full /\ last.kind # "none"
                             THEN last.res.err ELSE "none",
                    msg_id |-> IF full THEN msg.msg_id ELSE 0,
                    owed |-> IF full THEN last.owed + frames_owed(msg, r) ELSE 0]
        /\ bt' = bt_next(bt, msg, r)
        /\ s2' = s2_next(s2, msg, seq_num_counter, r)
  /\ received' = received + 1
  /\ UNCHANGED <<dupVars, debug_build, seqHist, collab_type, folder_ok, collab_lock,
                 app_queued, publishVars, appVars>>

Receive(msg) == ReceiveWith(msg, MaxMsgs, FALSE)

\* The same turn of the loop, with the full history
EngineReceive(msg) == ReceiveWith(msg, MaxEngineMsgs, TRUE)

\* A turn of the loop in which weak_collab.upgrade() returns None: break
UpgradeFails ==
  /\ observer = "running"
  /\ received < MaxMsgs
  /\ strong_count = 0
  /\ observer' = "stopped"
  /\ received' = received + 1
  /\ UNCHANGED <<dupVars, trackerVars, seqHist, collab_type, folder_ok, collab_lock,
                 collab_updates, sink_queue, msg_id_counter, tasks,
                 last, bt, s2, app_queued, publishVars, appVars>>

\* The application drops its Arc of the replica
AppRelease ==
  /\ collab_arc
  /\ ~collab_lock
  /\ collab_arc' = FALSE
  /\ UNCHANGED <<dupVars, trackerVars, seqHist, obsVars, publishVars>>

\* The stream ends or yields an error: the loop is left
StreamStop ==
  /\ observer = "running"
  /\ observer' = "stopped"
  /\ UNCHANGED <<dupVars, trackerVars, seqHist, collab_type, folder_ok, collab_lock,
                 collab_updates, sink_queue, msg_id_counter, tasks, received,
                 last, bt, s2, app_queued, publishVars, appVars>>

\* The application takes and releases the replica's mutex
AppLock ==
  /\ ~collab_lock
  /\ collab_lock' = TRUE
  /\ UNCHANGED <<dupVars, trackerVars, seqHist, collab_type, folder_ok, collab_updates,
                 observer, sink_queue, msg_id_counter, tasks, received, last, bt, s2, app_queued,
                 publishVars, appVars>>

AppUnlock ==
  /\ collab_lock
  /\ collab_lock' = FALSE
  /\ UNCHANGED <<dupVars, trackerVars, seqHist, collab_type, folder_ok, collab_updates,
                 observer, sink_queue, msg_id_counter, tasks, received, last, bt, s2, app_queued,
                 publishVars, appVars>>

\* a sleep one second short
sleep_elapsed_early(t) == t.timer >= Debounce - 1

\* The sleep of the task's select! has run its 3 seconds
sleep_elapsed(t) == t.timer = Debounce

\* a cancellation that also reaches a task inside pull_missing_updates
cancel_observed_mid_sync(t) == t.st \in {"debounce", "pulling"} /\ t.cancelled

\* The branch new_cancel_token.cancelled() of the task's select! is ready: the
\* task is awaiting the select! and its token is cancelled
cancel_observed(t) == t.st = "debounce" /\ t.cancelled

\* A task that can run now: a branch of its select! is ready, or it is in
\* pull_missing_updates
Runnable(t) ==
  \/ cancel_observed(t)
  \/ t.st = "debounce" /\ sleep_elapsed(t)
  \/ t.st = "pulling"

\* One second passes.  Tasks that can run do so before the clock moves on.
Tick ==
  /\ \E i \in 1 .. Len(tasks) : tasks[i].st = "debounce"
  /\ \A i \in 1 .. Len(tasks) : ~Runnable(tasks[i])
  /\ tasks' = [i \in 1 .. Len(tasks) |->
                 IF tasks[i].st = "debounce"
                 THEN [tasks[i] EXCEPT !.timer = tasks[i].timer + 1]
                 ELSE tasks[i]]
  /\ UNCHANGED <<dupVars, trackerVars, seqHist, collab_type, folder_ok, collab_lock,
                 collab_updates, observer, sink_queue, msg_id_counter, received,
                 last, bt, s2, app_queued, publishVars, appVars>>

\* select!: the branch of new_cancel_token.cancelled()
TaskCancelled(i) ==
  /\ cancel_observed(tasks[i])
  /\ tasks' = [tasks EXCEPT ![i].st = "cancelled"]
  /\ UNCHANGED <<dupVars, trackerVars, seqHist, collab_type, folder_ok, collab_lock,
                 collab_updates, observer, sink_queue, msg_id_counter, received,
                 last, bt, s2, app_queued, publishVars, appVars>>

\* select!: the branch of the sleep
TaskSleepElapsed(i) ==
  /\ tasks[i].st = "debounce"
  /\ sleep_elapsed(tasks[i])
  /\ tasks' = [tasks EXCEPT ![i].st = "pulling"]
  /\ UNCHANGED <<dupVars, trackerVars, seqHist, collab_type, folder_ok, collab_lock,
                 collab_updates, observer, sink_queue, msg_id_counter, received,
                 last, bt, s2, app_queued, publishVars, appVars>>

\* pull_missing_updates: try_lock, and start_sync under the lock
PullMissingUpdates(i) ==
  /\ tasks[i].st = "pulling"
  /\ tasks' = [tasks EXCEPT ![i].st = "done", ![i].synced = ~collab_lock]
  /\ LET w0 == [updates |-> collab_updates, queue |-> sink_queue,
                next_id |-> msg_id_counter, trace |-> <<>>]
         w1 == IF collab_lock THEN w0 ELSE start_sync(w0, "MissUpdates")
     IN /\ sink_queue' = w1.queue
        /\ msg_id_counter' = w1.next_id
  /\ UNCHANGED <<dupVars, trackerVars, seqHist, collab_type, folder_ok, collab_lock,
                 collab_updates, observer, received, last, bt, s2, app_queued, publishVars,
                 appVars>>

\* The application queues a local update into the sink
AppQueueUpdate ==
  /\ app_queued < MaxAppMsgs
  /\ app_queued' = app_queued + 1
  /\ LET w0 == [updates |-> collab_updates, queue |-> sink_queue,
                next_id |-> msg_id_counter, trace |-> <<>>]
         w1 == queue_msg(w0, "ClientUpdateSync")
     IN /\ sink_queue' = w1.queue
        /\ msg_id_counter' = w1.next_id
  /\ UNCHANGED <<dupVars, trackerVars, seqHist, collab_type, folder_ok, collab_lock,
                 collab_updates, observer, tasks, received, last, bt, s2, publishVars, appVars>>

\* ---------------------------------------------------------------------------
\* PublishCollabDuplicator
\* ---------------------------------------------------------------------------
\* The source views a published document can mention
Pages == {1, 2}
\* The source rows a published database can hold
Rows == {1, 2}

\* View ids: of a source view, of a view made here (the n-th uuid drawn), of
\* the destination parent view, the empty string, and JSON null
SrcId(p) == [kind |-> "source", id |-> p]
NewId(n) == [kind |-> "new", id |-> n]
DestViewId == [kind |-> "dest", id |-> 0]
EmptyId == [kind |-> "empty", id |-> 0]
JsonNull == [kind |-> "null", id |-> 0]
\* The id of a row of the published database
SrcRowId(r) == [kind |-> "source row", id |-> r]

\* Option<String> values of duplicated_refs, and a key that is not in the map
RefAbsent == [present |-> FALSE, some |-> FALSE, id |-> EmptyId]
RefNone == [present |-> TRUE, some |-> FALSE, id |-> EmptyId]
RefSome(vid) == [present |-> TRUE, some |-> TRUE, id |-> vid]

SeqsUpTo(S, n) == UNION {[1 .. k -> S] : k \in 0 .. n}

\* What select_published_data_for_view_id finds for a view: nothing, or a
\* document whose block deltas mention the pages of delta in that order and
\* whose text map mentions the pages of text, or a database whose views each
\* list the rows of row_orders
NotPublished ==
  [found |-> FALSE, kind |-> "none", delta |-> <<>>, text |-> {}, views |-> <<>>]
PublishedDocs ==
  {[found |-> TRUE, kind |-> "Document", delta |-> d, text |-> t, views |-> <<>>] :
     d \in SeqsUpTo(Pages, MaxMentions), t \in SUBSET Pages}
PublishedDatabases ==
  {[found |-> TRUE, kind |-> "Database", delta |-> <<>>, text |-> {},
    views |-> [v \in 1 .. n |-> row_orders]] :
     n \in 1 .. MaxDbViews, row_orders \in SeqsUpTo(Rows, MaxRows)}

\* A published database whose JSON blob lacks the entry database_collab, or
\* the entry database_row_collabs
MalformedDatabases ==
  {[found |-> TRUE, kind |-> k, delta |-> <<>>, text |-> {}, views |-> <<>>] :
     k \in {"Database without database_collab",
            "Database without database_row_collabs"}}

select_published_data_for_view_id(pub, src) == pub[src]

NoRet == [set |-> FALSE, some |-> FALSE,
          view |-> [id |-> EmptyId, parent_view_id |-> EmptyId, children |-> <<>>]]
RetNone == [NoRet EXCEPT !.set = TRUE]
RetSome(view) == [set |-> TRUE, some |-> TRUE, view |-> view]

\* new_view: parent_view_id is left empty for the caller
new_view(new_view_id) ==
  [id |-> new_view_id, parent_view_id |-> EmptyId, children |-> <<>>]

\* the caller leaves parent_view_id as new_view made it
set_parent_view_id_skipped(view, parent_id) == view

\* new_view.parent_view_id = ret_view.id.clone(), and
\* root_view.parent_view_id = self.dest_view_id.clone()
set_parent_view_id(view, parent_id) == [view EXCEPT !.parent_view_id = parent_id]

Call(new_view_id, src, ctype) ==
  [new_view_id |-> new_view_id, src |-> src, ctype |-> ctype, phase |-> "lookup",
   delta |-> <<>>, i |-> 1, ret_view |-> new_view(new_view_id)]

Top == stack[Len(stack)]
Pop == SubSeq(stack, 1, Len(stack) - 1)
SetTop(f) == [stack EXCEPT ![Len(stack)] = f]

\* The CollabParams given to insert_collab_for_duplicator, with what the
\* encoded collab holds
CollabParams(oid, ctype, src) ==
  [oid |-> oid, collab_type |-> ctype, src |-> src, delta |-> <<>>, text |-> <<>>,
   id |-> EmptyId, database_id |-> EmptyId, views |-> <<>>]

NoRoot == [src |-> 0, ctype |-> "none"]
\* log lists the persists and broadcasts of deep_copy in the order they are made
NewFolder ==
  [views |-> <<>>, persisted |-> 0, broadcast |-> 0, txn |-> "none",
   ws_db_persisted |-> 0, ws_db_broadcast |-> 0, log |-> <<>>]

InitDup ==
  /\ dup_pc = "idle"
  /\ dup_result = "none"
  /\ root = NoRoot
  /\ duplicated_refs = [p \in Pages |-> RefAbsent]
  /\ views_to_add = <<>>
  /\ workspace_databases = <<>>
  /\ stack = <<>>
  /\ ret = NoRet
  /\ inserted = <<>>
  /\ copied = [p \in Pages |-> 0]
  /\ uuid_counter = 0
  /\ folder = NewFolder

\* The mutant of rollback: the transaction is left as it is
rollback_skipped(f) == f
\* txn.rollback()
rollback(f) == [f EXCEPT !.txn = "rolled back"]

\* The mutant of the next one: nothing is put into duplicated_refs
record_published_skipped(refs, publish_view_id, new_view_id) == refs

\* deep_copy_txn: the view is published, and that is put into duplicated_refs
record_published(refs, publish_view_id, new_view_id) ==
  [refs EXCEPT ![publish_view_id] = RefSome(new_view_id)]

\* deep_copy: begin the transaction and call deep_copy_txn for the root
DeepCopy(publish_view_id, ctype) ==
  /\ dup_pc = "idle"
  /\ dup_pc' = "copy"
  /\ root' = [src |-> publish_view_id, ctype |-> ctype]
  /\ uuid_counter' = uuid_counter + 1
  /\ stack' = <<Call(NewId(uuid_counter + 1), publish_view_id, ctype)>>
  /\ folder' = [folder EXCEPT !.txn = "open"]
  /\ UNCHANGED <<dup_result, published, duplicated_refs, views_to_add,
                 workspace_databases, ret, inserted, copied,
                 trackerVars, seqHist, obsVars, publishVars, appVars>>

\* deep_copy_txn: the lookup misses
DeepCopyTxnMiss ==
  /\ dup_pc = "copy"
  /\ stack # <<>>
  /\ Top.phase = "lookup"
  /\ ~select_published_data_for_view_id(published, Top.src).found
  /\ stack' = Pop
  /\ ret' = RetNone
  /\ UNCHANGED <<dup_pc, dup_result, root, published, duplicated_refs, views_to_add,
                 workspace_databases, inserted, copied, uuid_counter, folder,
                 trackerVars, seqHist, obsVars, publishVars, appVars>>

\* deep_copy_txn: the lookup hits and the collab is a Document
DeepCopyTxnDocument ==
  /\ dup_pc = "copy"
  /\ stack # <<>>
  /\ Top.phase = "lookup"
  /\ Top.ctype = "Document"
  /\ LET data == select_published_data_for_view_id(published, Top.src) IN
     /\ data.found
     /\ duplicated_refs' = record_published(duplicated_refs, Top.src, Top.new_view_id)
     /\ copied' = [copied EXCEPT ![Top.src] = @ + 1]
     /\ IF data.kind = "Document"
        THEN /\ stack' = SetTop([Top EXCEPT
                                   !.phase = "delta",
                                   !.delta = [k \in 1 .. Len(data.delta) |->
                                                SrcId(data.delta[k])]])
             /\ UNCHANGED <<dup_pc, dup_result, folder>>
        ELSE \* Document::from_doc_state fails on a blob that is no document
             /\ stack' = <<>>
             /\ dup_pc' = "done"
             /\ dup_result' = "Unhandled"
             /\ folder' = [folder EXCEPT !.txn = "dropped"]
  /\ UNCHANGED <<root, published, views_to_add, workspace_databases, ret, inserted,
                 uuid_counter, trackerVars, seqHist, obsVars, publishVars, appVars>>

\* deep_copy_txn: the lookup hits and the collab type is not copied
DeepCopyTxnOther ==
  /\ dup_pc = "copy"
  /\ stack # <<>>
  /\ Top.phase = "lookup"
  /\ Top.ctype = "DatabaseRow"
  /\ select_published_data_for_view_id(published, Top.src).found
  /\ duplicated_refs' = record_published(duplicated_refs, Top.src, Top.new_view_id)
  /\ copied' = [copied EXCEPT ![Top.src] = @ + 1]
  /\ stack' = Pop
  /\ ret' = RetNone
  /\ UNCHANGED <<dup_pc, dup_result, root, published, views_to_add,
                 workspace_databases, inserted, uuid_counter, folder,
                 trackerVars, seqHist, obsVars, publishVars, appVars>>

\* deep_copy_database_txn: .get("database_collab").ok_or_else(|| RecordNotFound)?
\* and the same for "database_row_collabs"
missing_entry_error == "RecordNotFound"

\* The row ids of all row_orders of all views, in the order of the two loops
RECURSIVE all_row_orders(_)
all_row_orders(views) ==
  IF views = <<>> THEN <<>> ELSE Head(views) \o all_row_orders(Tail(views))

\* deep_copy_database_txn: the database collab as it is encoded at the end.
\* The loop over row_orders reads row_order.id and assigns nothing to it.
database_collab(new_view_id, src, new_db_uuid, views) ==
  [CollabParams(new_view_id, "Database", src) EXCEPT
     !.database_id = new_db_uuid,
     !.views = [v \in 1 .. Len(views) |->
                  [j \in 1 .. Len(views[v]) |-> SrcRowId(views[v][j])]]]

\* deep_copy_database_txn: the row collab made for one row_order
database_row_collab(new_row_uuid, src_row, new_db_uuid) ==
  [CollabParams(new_row_uuid, "DatabaseRow", src_row) EXCEPT
     !.id = new_row_uuid,
     !.database_id = new_db_uuid]

\* deep_copy_txn: the lookup hits and the collab is a Database;
\* deep_copy_database_txn runs to its end
DeepCopyTxnDatabase ==
  /\ dup_pc = "copy"
  /\ stack # <<>>
  /\ Top.phase = "lookup"
  /\ Top.ctype = "Database"
  /\ LET data == select_published_data_for_view_id(published, Top.src)
         new_db_uuid == NewId(uuid_counter + 1)
         rows == all_row_orders(data.views)
     IN
     /\ data.found
     /\ duplicated_refs' = record_published(duplicated_refs, Top.src, Top.new_view_id)
     /\ copied' = [copied EXCEPT ![Top.src] = @ + 1]
     /\ IF data.kind = "Database"
        THEN /\ workspace_databases' =
                  Append(workspace_databases,
                         [database_id |-> new_db_uuid, views |-> <<Top.new_view_id>>])
             /\ uuid_counter' = uuid_counter + 1 + Len(rows)
             /\ inserted' =
                  inserted
                  \o [k \in 1 .. Len(rows) |->
                        database_row_collab(NewId(uuid_counter + 1 + k), rows[k],
                                            new_db_uuid)]
                  \o <<database_collab(Top.new_view_id, Top.src, new_db_uuid,
                                       data.views)>>
             /\ stack' = Pop
             /\ ret' = RetSome(Top.ret_view)
             /\ UNCHANGED <<dup_pc, dup_result, folder>>
        ELSE \* an entry of the JSON blob is missing: ok_or_else(RecordNotFound)?;
             \* serde_json::from_slice(..).unwrap() on a blob that is no JSON
             /\ stack' = <<>>
             /\ dup_pc' = "done"
             /\ dup_result' = IF data \in MalformedDatabases
                              THEN missing_entry_error
                              ELSE "Panic"
             /\ folder' = [folder EXCEPT !.txn = "dropped"]
             /\ UNCHANGED <<workspace_databases, uuid_counter, inserted, ret>>
  /\ UNCHANGED <<root, published, views_to_add, trackerVars, seqHist, obsVars, publishVars, appVars>>

\* deep_copy_doc_txn: one turn of the loop over the page_ids of the block
\* deltas, for a page_id that is in duplicated_refs
DocMentionKnown ==
  /\ dup_pc = "copy"
  /\ stack # <<>>
  /\ Top.phase = "delta"
  /\ Top.i <= Len(Top.delta)
  /\ LET r == duplicated_refs[Top.delta[Top.i].id] IN
     /\ r.present
     /\ stack' = SetTop(
          IF r.some
          THEN [Top EXCEPT !.delta[Top.i] = r.id,
                           !.ret_view.children = Append(Top.ret_view.children, r.id),
                           !.i = Top.i + 1]
          ELSE [Top EXCEPT !.i = Top.i + 1])
  /\ UNCHANGED <<dup_pc, dup_result, root, published, duplicated_refs, views_to_add,
                 workspace_databases, ret, inserted, copied, uuid_counter, folder,
                 trackerVars, seqHist, obsVars, publishVars, appVars>>

\* the same turn for a page_id that is not: the nested deep_copy_txn is called
DocMentionCall ==
  /\ dup_pc = "copy"
  /\ stack # <<>>
  /\ Top.phase = "delta"
  /\ Top.i <= Len(Top.delta)
  /\ ~duplicated_refs[Top.delta[Top.i].id].present
  /\ uuid_counter' = uuid_counter + 1
  /\ stack' = Append(SetTop([Top EXCEPT !.phase = "await"]),
                     Call(NewId(uuid_counter + 1), Top.delta[Top.i].id, "Document"))
  /\ UNCHANGED <<dup_pc, dup_result, root, published, duplicated_refs, views_to_add,
                 workspace_databases, ret, inserted, copied, folder,
                 trackerVars, seqHist, obsVars, publishVars, appVars>>

\* and what the loop does with the value the nested call returned
DocMentionReturn ==
  /\ dup_pc = "copy"
  /\ stack # <<>>
  /\ Top.phase = "await"
  /\ ret.set
  /\ LET page_id == Top.delta[Top.i].id
         child == set_parent_view_id(ret.view, Top.ret_view.id)
     IN IF ret.some
        THEN /\ stack' = SetTop([Top EXCEPT
                   !.ret_view.children = Append(Top.ret_view.children, child.id),
                   !.delta[Top.i] = child.id,
                   !.i = Top.i + 1,
                   !.phase = "delta"])
             /\ duplicated_refs' =
                  [duplicated_refs EXCEPT ![page_id] = RefSome(child.id)]
             /\ views_to_add' = Append(views_to_add, child)
        ELSE /\ stack' = SetTop([Top EXCEPT !.i = Top.i + 1, !.phase = "delta"])
             /\ duplicated_refs' = [duplicated_refs EXCEPT ![page_id] = RefNone]
             /\ UNCHANGED views_to_add
  /\ ret' = NoRet
  /\ UNCHANGED <<dup_pc, dup_result, root, published, workspace_databases, inserted,
                 copied, uuid_counter, folder, trackerVars, seqHist, obsVars, publishVars,
                 appVars>>

\* serde_json::json!(new_page_id) of an Option<String>: the string, or null
json_of_option(r) == IF r.some THEN r.id ELSE JsonNull

\* The text map's rewrite of one page mention
rewrite_text_mention(refs, page_id) ==
  IF refs[page_id].present THEN json_of_option(refs[page_id]) ELSE SrcId(page_id)

\* deep_copy_doc_txn after the loop: the text map, the encoding, the insert
DocInsert ==
  /\ dup_pc = "copy"
  /\ stack # <<>>
  /\ Top.phase = "delta"
  /\ Top.i > Len(Top.delta)
  /\ inserted' = Append(inserted,
       [CollabParams(Top.ret_view.id, "Document", Top.src) EXCEPT
          !.delta = Top.delta,
          !.text = [p \in published[Top.src].text |->
                      rewrite_text_mention(duplicated_refs, p)]])
  /\ stack' = Pop
  /\ ret' = RetSome(Top.ret_view)
  /\ UNCHANGED <<dup_pc, dup_result, root, published, duplicated_refs, views_to_add,
                 workspace_databases, copied, uuid_counter, folder,
                 trackerVars, seqHist, obsVars, publishVars, appVars>>

\* deep_copy: the root call returned None
DeepCopyNotFound ==
  /\ dup_pc = "copy"
  /\ stack = <<>>
  /\ ret.set /\ ~ret.some
  /\ dup_pc' = "done"
  /\ dup_result' = "RecordNotFound"
  /\ folder' = rollback(folder)
  /\ ret' = NoRet
  /\ UNCHANGED <<root, published, duplicated_refs, views_to_add, workspace_databases,
                 stack, inserted, copied, uuid_counter, trackerVars, seqHist, obsVars, publishVars,
                 appVars>>

\* The steps of deep_copy that can return an error once the root is copied,
\* in the order of the code, and "none" for a call on which none of them does
FailPoints ==
  <<"get folder", "persist folder", "select ws db oid", "get ws db",
    "persist ws db", "commit", "none">>

StepNo(step) == CHOOSE k \in 1 .. Len(FailPoints) : FailPoints[k] = step

\* The error of a storage collaborator, handed on by `?`
storage_error == "Unhandled"

\* deep_copy: the root call returned a view; the folder gets the views, is
\* stored and broadcast to its group if there is one, the workspace database
\* collab gets the new databases if there are any, is broadcast and stored,
\* and the transaction is committed; the step fail_at returns an error and
\* `?` leaves the function there
DeepCopyFolderWith(has_group, has_ws_db_group, fail_at) ==
  /\ dup_pc = "copy"
  /\ stack = <<>>
  /\ ret.set /\ ret.some
  /\ fail_at \in {"select ws db oid", "get ws db", "persist ws db"}
       => workspace_databases # <<>>
  /\ LET root_view == set_parent_view_id(ret.view, DestViewId)
         ws_db == workspace_databases # <<>>
         passed(step) == StepNo(fail_at) > StepNo(step)
         folder_persisted == passed("persist folder")
         folder_broadcast == folder_persisted /\ has_group
         ws_db_broadcast == ws_db /\ passed("get ws db") /\ has_ws_db_group
         ws_db_persisted == ws_db /\ passed("persist ws db")
         event(done, name) == IF done THEN <<name>> ELSE <<>>
     IN
     folder' = [views |-> IF folder_persisted THEN <<root_view>> \o views_to_add
                          ELSE folder.views,
                persisted |-> IF folder_persisted THEN folder.persisted + 1
                              ELSE folder.persisted,
                broadcast |-> IF folder_broadcast THEN folder.broadcast + 1
                              ELSE folder.broadcast,
                ws_db_broadcast |-> IF ws_db_broadcast
                                    THEN folder.ws_db_broadcast + 1
                                    ELSE folder.ws_db_broadcast,
                ws_db_persisted |-> IF ws_db_persisted THEN folder.ws_db_persisted + 1
                                    ELSE folder.ws_db_persisted,
                txn |-> IF fail_at = "none" THEN "committed" ELSE "dropped",
                log |-> folder.log
                          \o event(folder_persisted, "persist folder")
                          \o event(folder_broadcast, "broadcast folder")
                          \o event(ws_db_broadcast, "broadcast ws db")
                          \o event(ws_db_persisted, "persist ws db")]
  /\ dup_pc' = "done"
  /\ dup_result' = IF fail_at = "none" THEN "Ok" ELSE storage_error
  /\ ret' = NoRet
  /\ UNCHANGED <<root, published, duplicated_refs, views_to_add, workspace_databases,
                 stack, inserted, copied, uuid_counter, trackerVars, seqHist, obsVars, publishVars,
                 appVars>>

\* The same with every step returning Ok
DeepCopyFolder(has_group, has_ws_db_group) ==
  DeepCopyFolderWith(has_group, has_ws_db_group, "none")

\* deep_copy_doc_txn after the loop, with insert_collab_for_duplicator
\* returning an error
DocInsertFails ==
  /\ dup_pc = "copy"
  /\ stack # <<>>
  /\ Top.phase = "delta"
  /\ Top.i > Len(Top.delta)
  /\ stack' = <<>>
  /\ dup_pc' = "done"
  /\ dup_result' = storage_error
  /\ folder' = [folder EXCEPT !.txn = "dropped"]
  /\ UNCHANGED <<root, published, duplicated_refs, views_to_add, workspace_databases,
                 ret, inserted, copied, uuid_counter, trackerVars, seqHist, obsVars, publishVars,
                 appVars>>

InitObserver ==
  /\ collab_type \in {"Folder", "Document"}
  /\ folder_ok \in BOOLEAN
  /\ collab_type = "Document" => folder_ok
  /\ collab_lock = FALSE
  /\ collab_updates = 0
  /\ observer = "running"
  /\ sink_queue = <<>>
  /\ msg_id_counter = 0
  /\ tasks = <<>>
  /\ received = 0
  /\ last = NoLast
  /\ bt = BtInit
  /\ s2 = S2Idle
  /\ app_queued = 0
  /\ collab_arc = TRUE

\* ---------------------------------------------------------------------------
\* Published collabs of a workspace, as the integration test calls them
\* ---------------------------------------------------------------------------
\* The clients of the tests; "guest" is localhost_client(), which has no token
Clients == {"page_owner", "first_user", "second_user", "guest"}
logged_in(c) == c # "guest"

\* view_id_1 and view_id_2 of test_publish_doc
ViewIds == {1, 2}
MyNamespace == "my_namespace"
\* The test publishes view_id_k as "publish-name-k" with title "my_title_k"
PublishNameOf(view_id) == [name |-> view_id]
MyCustomMetadata(view_id) == [title |-> view_id]
\* "yrs_encoded_data_k"
Blobs == 1 .. MaxBlobs

PublishCollabItem(view_id, data) ==
  [view_id |-> view_id, publish_name |-> PublishNameOf(view_id),
   metadata |-> MyCustomMetadata(view_id), data |-> data]
\* The item lists a publish_collabs call may carry: one item a view at most
ItemLists ==
  {{PublishCollabItem(v, f[v]) : v \in DOMAIN f} :
     f \in UNION {[S -> Blobs] : S \in (SUBSET ViewIds) \ {{}}}}

AppOk(value) == [code |-> "Ok", value |-> value]
AppError(code) == [code |-> code, value |-> 0]
NoResponse == [op |-> "none", client |-> "none", arg |-> 0, result |-> AppOk(0)]

PublishedRow(item) ==
  [view_id |-> item.view_id, namespace |-> MyNamespace,
   publish_name |-> item.publish_name, metadata |-> item.metadata,
   blob |-> item.data]

\* publish_collabs, with a row of the same view left as it is
publish_collabs_keeps_existing(table, items) ==
  table \cup {PublishedRow(i) : i \in {j \in items :
                 \A r \in table : r.view_id # j.view_id}}

\* publish_collabs: the row of a view is inserted, or replaced when the view
\* is published already
publish_collabs(table, items) ==
  {r \in table : \A i \in items : i.view_id # r.view_id}
    \cup {PublishedRow(i) : i \in items}

\* unpublish_collabs: the rows of the views are deleted
unpublish_collabs(table, view_ids) == {r \in table : r.view_id \notin view_ids}

RowsNamed(table, namespace, name) ==
  {r \in table : r.namespace = namespace /\ r.publish_name = name}

\* The three reads; none of them asks who the client is
get_published_collab(table, namespace, name) ==
  IF RowsNamed(table, namespace, name) = {} THEN AppError("RecordNotFound")
  ELSE AppOk((CHOOSE r \in RowsNamed(table, namespace, name) : TRUE).metadata)

get_published_collab_blob(table, namespace, name) ==
  IF RowsNamed(table, namespace, name) = {} THEN AppError("RecordNotFound")
  ELSE AppOk((CHOOSE r \in RowsNamed(table, namespace, name) : TRUE).blob)

get_published_collab_info(table, view_id) ==
  IF \A r \in table : r.view_id # view_id THEN AppError("RecordNotFound")
  ELSE LET r == CHOOSE q \in table : q.view_id = view_id
       IN AppOk([namespace |-> r.namespace, publish_name |-> r.publish_name,
                 view_id |-> r.view_id])

NeverPublished == [state |-> "never", blob |-> 0, replaced |-> FALSE]

\* c.publish_collabs(&workspace_id, items): the workspace's owner publishes
PublishCollabs(c, items) ==
  /\ c = "page_owner"
  /\ publish_table' = publish_collabs(publish_table, items)
  /\ publish_hist' =
       [v \in ViewIds |->
          IF \E i \in items : i.view_id = v
          THEN [state |-> "published",
                blob |-> (CHOOSE i \in items : i.view_id = v).data,
                replaced |-> \E r \in publish_table : r.view_id = v]
          ELSE publish_hist[v]]
  /\ response' = [op |-> "publish_collabs", client |-> c,
                  arg |-> {i.view_id : i \in items}, result |-> AppOk(0)]
  /\ UNCHANGED <<comments, trackerVars, seqHist, obsVars, dupVars, appVars>>

\* c.unpublish_collabs(&workspace_id, &[view_id, ..])
UnpublishCollabs(c, view_ids) ==
  /\ c = "page_owner"
  /\ publish_table' = unpublish_collabs(publish_table, view_ids)
  /\ publish_hist' =
       [v \in ViewIds |->
          IF v \in view_ids
          THEN [state |-> "unpublished", blob |-> 0, replaced |-> FALSE]
          ELSE publish_hist[v]]
  /\ response' = [op |-> "unpublish_collabs", client |-> c,
                  arg |-> view_ids, result |-> AppOk(0)]
  /\ UNCHANGED <<comments, trackerVars, seqHist, obsVars, dupVars, appVars>>

\* c.get_published_collab::<MyCustomMetadata>(&my_namespace, publish_name)
GetPublishedCollab(c, view_id) ==
  /\ response' = [op |-> "get_published_collab", client |-> c, arg |-> view_id,
                  result |-> get_published_collab(publish_table, MyNamespace,
                                                  PublishNameOf(view_id))]
  /\ UNCHANGED <<publish_table, publish_hist, comments,
                 trackerVars, seqHist, obsVars, dupVars, appVars>>

\* c.get_published_collab_info(&view_id)
GetPublishedCollabInfo(c, view_id) ==
  /\ response' = [op |-> "get_published_collab_info", client |-> c,
                  arg |-> view_id,
                  result |-> get_published_collab_info(publish_table, view_id)]
  /\ UNCHANGED <<publish_table, publish_hist, comments,
                 trackerVars, seqHist, obsVars, dupVars, appVars>>

\* c.get_published_collab_blob(&my_namespace, publish_name)
GetPublishedCollabBlob(c, view_id) ==
  /\ response' = [op |-> "get_published_collab_blob", client |-> c,
                  arg |-> view_id,
                  result |-> get_published_collab_blob(publish_table, MyNamespace,
                                                       PublishNameOf(view_id))]
  /\ UNCHANGED <<publish_table, publish_hist, comments,
                 trackerVars, seqHist, obsVars, dupVars, appVars>>

\* ---------------------------------------------------------------------------
\* Comments on the published view of test_publish_comments
\* ---------------------------------------------------------------------------
\* reply_comment_id: None
NoComment == 0
CommentIds(cs) == 1 .. Len(cs)

\* create_comment_on_published_view: comment_id is the next row of the view
create_comment_on_published_view(cs, c, reply_comment_id) ==
  IF ~logged_in(c) THEN [comments |-> cs, result |-> AppError("NotLoggedIn")]
  ELSE [comments |-> Append(cs, [comment_id |-> Len(cs) + 1, user |-> c,
                                 reply_comment_id |-> reply_comment_id,
                                 is_deleted |-> FALSE]),
        result |-> AppOk(0)]

\* delete_comment_on_published_view, with the row removed
delete_comment_removes_row(cs, c, comment_id) ==
  IF ~logged_in(c) THEN [comments |-> cs, result |-> AppError("NotLoggedIn")]
  ELSE IF c # "page_owner" /\ c # cs[comment_id].user
  THEN [comments |-> cs, result |-> AppError("UserUnAuthorized")]
  ELSE [comments |-> SubSeq(cs, 1, comment_id - 1)
                       \o SubSeq(cs, comment_id + 1, Len(cs)),
        result |-> AppOk(0)]

\* delete_comment_on_published_view: the page owner and the comment's creator
\* may delete, and the row stays with is_deleted set
delete_comment_on_published_view(cs, c, comment_id) ==
  IF ~logged_in(c) THEN [comments |-> cs, result |-> AppError("NotLoggedIn")]
  ELSE IF c # "page_owner" /\ c # cs[comment_id].user
  THEN [comments |-> cs, result |-> AppError("UserUnAuthorized")]
  ELSE [comments |-> [cs EXCEPT ![comment_id].is_deleted = TRUE],
        result |-> AppOk(0)]

\* get_published_view_comments: every row of the view, newest first
get_published_view_comments(cs) ==
  [k \in 1 .. Len(cs) |-> cs[Len(cs) + 1 - k]]

\* c.create_comment_on_published_view(&view_id, content, &reply_comment_id)
CreateComment(c, reply_comment_id) ==
  /\ Len(comments) < MaxComments
  /\ reply_comment_id \in {NoComment} \cup CommentIds(comments)
  /\ comments' =
       create_comment_on_published_view(comments, c, reply_comment_id).comments
  /\ response' =
       [op |-> "create_comment_on_published_view", client |-> c,
        arg |-> reply_comment_id,
        result |->
          create_comment_on_published_view(comments, c, reply_comment_id).result]
  /\ UNCHANGED <<publish_table, publish_hist, trackerVars, seqHist, obsVars, dupVars, appVars>>

\* c.delete_comment_on_published_view(&view_id, &comment_id)
DeleteComment(c, comment_id) ==
  /\ comment_id \in CommentIds(comments)
  /\ comments' = delete_comment_on_published_view(comments, c, comment_id).comments
  /\ response' =
       [op |-> "delete_comment_on_published_view", client |-> c,
        arg |-> comment_id,
        result |-> delete_comment_on_published_view(comments, c, comment_id).result]
  /\ UNCHANGED <<publish_table, publish_hist, trackerVars, seqHist, obsVars, dupVars, appVars>>

\* c.get_published_view_comments(&view_id)
GetPublishedViewComments(c) ==
  /\ response' = [op |-> "get_published_view_comments", client |-> c, arg |-> 0,
                  result |-> AppOk(get_published_view_comments(comments))]
  /\ UNCHANGED <<publish_table, publish_hist, comments,
                 trackerVars, seqHist, obsVars, dupVars, appVars>>

\* No view published, no comment written, no call made
InitPublish ==
  /\ publish_table = {}
  /\ publish_hist = [v \in ViewIds |-> NeverPublished]
  /\ comments = <<>>
  /\ response = NoResponse

NoneIsPublished == published = [p \in Pages |-> NotPublished]

Init ==
  /\ InitTracker
  /\ InitObserver
  /\ InitDup
  /\ InitPublish
  /\ NoneIsPublished
  /\ ~debug_build

Next ==
  \/ \E msg \in Messages(sink_queue) : Receive(msg)
  \/ StreamStop
  \/ AppLock
  \/ AppUnlock
  \/ Tick
  \/ \E i \in 1 .. Len(tasks) : TaskCancelled(i)
  \/ \E i \in 1 .. Len(tasks) : TaskSleepElapsed(i)
  \/ \E i \in 1 .. Len(tasks) : PullMissingUpdates(i)

Spec == Init /\ [][Next]_vars

\* The observer and its tasks beside an application that queues updates
NextSink ==
  \/ Next
  \/ AppQueueUpdate

SpecSink == Init /\ [][NextSink]_vars

\* The observer and its tasks beside an application that drops the replica
NextWeak ==
  \/ Next
  \/ AppRelease
  \/ UpgradeFails

SpecWeak == Init /\ [][NextWeak]_vars

\* One step of the i-th spawned task
TaskStep(i) ==
  /\ i \in 1 .. Len(tasks)
  /\ (TaskCancelled(i) \/ TaskSleepElapsed(i) \/ PullMissingUpdates(i))

\* The observer beside a runtime that schedules every spawned task that can
\* run and a clock that goes on
SpecCatchUp ==
  Spec /\ WF_vars(Tick) /\ \A i \in 1 .. MaxTasks : WF_vars(TaskStep(i))

\* The observer on payloads of several frames, frames that fail among them
EnginePayloads ==
  Payloads \cup
    { <<SyncStep1, Update>>, <<SyncStep1, AwarenessQuery>>,
      <<Update, Undecodable, Update>>, <<AwarenessQuery, FailingUpdate, Update>>,
      <<SyncStep2, PanickingUpdate, Update>> }

EngineMessages(q) ==
  {ServerBroadcast(1, p) : p \in EnginePayloads}
    \cup {ServerBroadcast(MaxSeq, <<>>), ServerAwareness(<<AwarenessQuery>>)}
    \cup {ServerInit(i, p) : i \in InboundIds(q), p \in EnginePayloads}
    \cup {ClientAck(i, "Success", n) : i \in InboundIds(q), n \in {1, MaxSeq}}
    \cup {ClientAckWith(i, code, MaxSeq, p) :
            i \in InboundIds(q), code \in {"CannotApplyUpdate", "MissUpdate"},
            p \in {<<>>, <<Update>>}}

NextEngine ==
  \/ \E msg \in EngineMessages(sink_queue) : EngineReceive(msg)
  \/ StreamStop
  \/ AppLock
  \/ AppUnlock

SpecEngine == Init /\ [][NextEngine]_vars

\* The observer on streams that exercise the sequence numbers
InitStream ==
  /\ InitTracker
  /\ InitObserver
  /\ InitDup
  /\ InitPublish
  /\ NoneIsPublished
  /\ collab_type = "Document"

NextStream ==
  \/ \E msg \in StreamMessages(sink_queue) : Receive(msg)
  \/ StreamStop

SpecStream == InitStream /\ [][NextStream]_vars

\* The tracker alone, its operations called in any order
InitSeq ==
  /\ InitTracker
  /\ InitObserver
  /\ InitDup
  /\ InitPublish
  /\ NoneIsPublished
  /\ collab_type = "Document"

SpecSeq == InitSeq /\ [][NextSeq]_vars

\* The tracker shared by threads
SpecConcurrent == InitSeq /\ [][NextConcurrent]_vars

\* The duplicator: one call of duplicate
InitDuplicate ==
  /\ InitTracker
  /\ InitObserver
  /\ InitDup
  /\ InitPublish
  /\ published \in [Pages -> {NotPublished} \cup PublishedDocs \cup PublishedDatabases]
  /\ collab_type = "Document"
  /\ ~debug_build

NextDup ==
  \/ \E p \in Pages, t \in {"Document", "Database", "DatabaseRow"} : DeepCopy(p, t)
  \/ DeepCopyTxnMiss
  \/ DeepCopyTxnDocument
  \/ DeepCopyTxnDatabase
  \/ DeepCopyTxnOther
  \/ DocMentionKnown
  \/ DocMentionCall
  \/ DocMentionReturn
  \/ DocInsert
  \/ DeepCopyNotFound
  \/ \E has_group, has_ws_db_group \in BOOLEAN : DeepCopyFolder(has_group, has_ws_db_group)

SpecDup == InitDuplicate /\ [][NextDup]_vars

\* The same, with the call running to its end: every await of it returns
SpecDupFair == SpecDup /\ WF_vars(NextDup)

\* duplicate beside storage that can fail and published databases that lack
\* an entry
InitDuplicateFails ==
  /\ InitTracker
  /\ InitObserver
  /\ InitDup
  /\ InitPublish
  /\ published \in [Pages -> {NotPublished} \cup PublishedDocs \cup PublishedDatabases
                                \cup MalformedDatabases]
  /\ collab_type = "Document"
  /\ ~debug_build

NextDupFails ==
  \/ NextDup
  \/ DocInsertFails
  \/ \E has_group, has_ws_db_group \in BOOLEAN :
       \E k \in 1 .. Len(FailPoints) - 1 :
         DeepCopyFolderWith(has_group, has_ws_db_group, FailPoints[k])

SpecDupFails == InitDuplicateFails /\ [][NextDupFails]_vars

\* The published collabs of one workspace, called by any client in any order
InitPublished ==
  /\ InitTracker
  /\ InitObserver
  /\ InitDup
  /\ InitPublish
  /\ NoneIsPublished
  /\ collab_type = "Document"
  /\ ~debug_build

NextPublish ==
  \/ \E c \in Clients, items \in ItemLists : PublishCollabs(c, items)
  \/ \E c \in Clients, view_ids \in (SUBSET ViewIds) \ {{}} :
       UnpublishCollabs(c, view_ids)
  \/ \E c \in Clients, v \in ViewIds : GetPublishedCollab(c, v)
  \/ \E c \in Clients, v \in ViewIds : GetPublishedCollabInfo(c, v)
  \/ \E c \in Clients, v \in ViewIds : GetPublishedCollabBlob(c, v)

SpecPublish == InitPublished /\ [][NextPublish]_vars

\* The comments on one published view, called by any client in any order
NextComments ==
  \/ \E c \in Clients, reply \in 0 .. MaxComments : CreateComment(c, reply)
  \/ \E c \in Clients, id \in 1 .. MaxComments : DeleteComment(c, id)
  \/ \E c \in Clients : GetPublishedViewComments(c)

SpecComments == InitPublished /\ [][NextComments]_vars

\* ---------------------------------------------------------------------------
\* Properties
\* ---------------------------------------------------------------------------
TaskIds == 1 .. Len(tasks)

\* C1: on a fresh observer, a stream of broadcasts in which no seq_num is more
\* than one above the largest seq_num delivered before it never makes
\* check_broadcast_contiguous return MissUpdates.
C1_NoSkipNeverRaises ==
  (bt.on /\ bt.noskip) => last.res.reason # "BroadcastSeqNotContinuous"

\* C2: from no strike, the first check_ack_broadcast_contiguous call that sees
\* ack_seq > broadcast_seq returns Ok with one strike counted; the next call,
\* seeing it again, returns MissUpdates(AckSeqAdvanceBroadcastSeq) with the
\* values it read, and leaves broadcast_seq = ack_seq and no strike.
C2_SecondStrikeRaises ==
  (last_op.op = "check_ack_broadcast_contiguous" /\ chk_last.lead) =>
    /\ chk_last.strikes = 0 =>
         /\ last_op.ret = Ok
         /\ seq_num_counter = [pre EXCEPT !.miss_update_counter = 1]
    /\ (chk_prev.seen /\ chk_prev.lead /\ chk_prev.strikes = 0) =>
         /\ last_op.ret = MissUpdates("AckSeqAdvanceBroadcastSeq",
                                      pre.ack_seq_counter, pre.broadcast_seq_counter)
         /\ seq_num_counter.broadcast_seq_counter = pre.ack_seq_counter
         /\ seq_num_counter.ack_seq_counter = pre.ack_seq_counter
         /\ seq_num_counter.miss_update_counter = 0

C2_Witness ==
  /\ last_op.op = "check_ack_broadcast_contiguous"
  /\ chk_last.lead
  /\ chk_prev.seen /\ chk_prev.lead /\ chk_prev.strikes = 0
  /\ last_op.ret.err = "MissUpdates"

C4_AckThenBroadcast ==
  s2.phase = 2 =>
    /\ ~s2.fault
    /\ seq_num_counter = [broadcast_seq_counter |-> s2.k + 1,
                          ack_seq_counter |-> s2.k + 1,
                          miss_update_counter |-> 0]

\* C5: a stream of broadcasts that is contiguous but for one skipped number
\* raises exactly one MissUpdates(BroadcastSeqNotContinuous), with current the
\* last seq_num before the gap and expected the first after it.
C5_OneSkipOneFault ==
  (bt.on /\ bt.shape = "oneskip") =>
    (bt.nfault = 1 /\ bt.fx = bt.lo /\ bt.fy = bt.hi)

\* A task that is spawned, not cancelled and not finished
Live(t) == (t.st = "debounce" /\ ~t.cancelled) \/ t.st = "pulling"

\* C6 as claimed: at most one catch-up task is live, counting the tasks in
\* their debounce and the tasks executing pull_missing_updates.
C6_AtMostOneLive ==
  Cardinality({i \in TaskIds : Live(tasks[i])}) <= 1

\* C6: at most one catch-up task waits in its debounce with a token that is
\* not cancelled, and it is the task spawned last.
C6_AtMostOneDebouncing ==
  \A i \in TaskIds :
    (tasks[i].st = "debounce" /\ ~tasks[i].cancelled) => i = Len(tasks)

C6_Witness ==
  /\ Len(tasks) >= 2
  /\ tasks[1].st = "pulling"
  /\ tasks[2].st = "debounce" /\ ~tasks[2].cancelled

C8_NoInitSyncFromBadFolder ==
  (collab_type = "Folder" /\ ~folder_ok) =>
    \A k \in 1 .. Len(sink_queue) : ~IsInitSync(sink_queue[k])

\* The frames of a payload in front of its first SyncStep1
RECURSIVE before_sync_step_1(_)
before_sync_step_1(frames) ==
  IF frames = <<>> \/ Head(frames).kind = "SyncStep1"
  THEN <<>>
  ELSE <<Head(frames)>> \o before_sync_step_1(Tail(frames))

Count(frames, P(_)) == Cardinality({k \in 1 .. Len(frames) : P(frames[k])})
Applies(frame) == frame.kind \in {"SyncStep2", "Update"}
Replies(frame) == frame.reply

\* C9 as claimed: when the folder guard fails on a payload, handling the
\* payload has queued nothing and left the replica as it was, and the observer
\* has stopped.
C9_GuardFailureNoEffect ==
  last.res.err = "OverrideWithIncorrectData" =>
    (last.enq = 0 /\ last.applied = 0 /\ observer = "stopped")

\* C9: when the folder guard fails at a SyncStep1, the observer has stopped,
\* and only the frames in front of that SyncStep1 were applied and answered.
C9_GuardFailureStops ==
  last.res.err = "OverrideWithIncorrectData" =>
    /\ observer = "stopped"
    /\ last.applied = Count(before_sync_step_1(last.payload), Applies)
    /\ last.enq = Count(before_sync_step_1(last.payload), Replies)

C9_Witness ==
  /\ last.res.err = "OverrideWithIncorrectData"
  /\ last.payload = <<Update, SyncStep1>>
  /\ last.applied = 1
  /\ observer = "stopped"

\* A page_id is as C10 wants it: the id of a view made by this call, or the
\* source id it was, with duplicated_refs holding None for that source
RewrittenOrUnpublished(v, page_id) ==
  \/ v.kind = "new" /\ v.id \in 1 .. uuid_counter
  \/ v = SrcId(page_id) /\ duplicated_refs[page_id] = RefNone

\* C10: after a successful duplicate every page mention of every inserted
\* document, in the block deltas and in the text map, is the id of a view made
\* by this call, or the source id it was with duplicated_refs None for it.
C10_MentionsRewritten ==
  dup_result = "Ok" =>
    \A k \in 1 .. Len(inserted) :
      LET d == inserted[k] IN
      /\ \A i \in 1 .. Len(d.delta) :
           RewrittenOrUnpublished(d.delta[i], published[d.src].delta[i])
      /\ \A p \in DOMAIN d.text : RewrittenOrUnpublished(d.text[p], p)

\* The pages a page sequence names
Range(f) == {f[k] : k \in DOMAIN f}

\* The view collabs persisted for the source view p
PersistedFor(p) ==
  {k \in 1 .. Len(inserted) :
     inserted[k].collab_type \in {"Document", "Database"} /\ inserted[k].src = p}

CopiedAtMostOnce ==
  \A p \in Pages : copied[p] <= 1 /\ Cardinality(PersistedFor(p)) <= 1

\* C11: for every source graph, cycles and self-mentions included, duplicate
\* comes to its end, deep_copy_txn gets past the lookup at most once for each
\* source view, and at most one new collab is persisted for each.
C11_TerminatesCopyingOnce ==
  /\ [](CopiedAtMostOnce)
  /\ [](dup_pc = "copy" => <>(dup_pc = "done"))

C11_Witness ==
  /\ dup_result = "Ok"
  /\ published[1].kind = "Document" /\ Range(published[1].delta) = {1, 2}
  /\ published[2].kind = "Document" /\ 1 \in Range(published[2].delta)
  /\ \A p \in Pages : copied[p] = 1 /\ Cardinality(PersistedFor(p)) = 1

\* The pages a published document mentions, in its block deltas or its text map
Mentions(p) == Range(published[p].delta) \cup published[p].text

IsPublishedDocument(p) == published[p].found /\ published[p].kind = "Document"

\* The published documents that can be reached from the pages of S through
\* page mentions, S included
RECURSIVE ReachableDocuments(_)
ReachableDocuments(S) ==
  LET N == S \cup {q \in Pages :
                     IsPublishedDocument(q) /\ \E p \in S : q \in Mentions(p)}
  IN IF N = S THEN S ELSE ReachableDocuments(N)

PersistedDocuments ==
  {k \in 1 .. Len(inserted) : inserted[k].collab_type = "Document"}

\* The mention of the published document q in a copy points to the copy of q
PointsToCopy(v, q) ==
  IsPublishedDocument(q) => (duplicated_refs[q].some /\ v = duplicated_refs[q].id)

\* C12: a successful duplicate of a published document persists one Document
\* collab for each published document that page mentions reach from it, the
\* mentions of each copy point to the copies of their targets,
\* workspace_databases stays empty, and the folder is persisted once and
\* broadcast at most once.
C12_DocumentGraphCopied ==
  (dup_result = "Ok" /\ root.ctype = "Document") =>
    /\ Cardinality(PersistedDocuments) = Cardinality(ReachableDocuments({root.src}))
    /\ \A k \in PersistedDocuments :
         LET d == inserted[k] IN
         /\ \A i \in 1 .. Len(d.delta) :
              PointsToCopy(d.delta[i], published[d.src].delta[i])
         /\ \A q \in DOMAIN d.text : PointsToCopy(d.text[q], q)
    /\ workspace_databases = <<>>
    /\ folder.persisted = 1
    /\ folder.broadcast <= 1

PersistedRows ==
  {k \in 1 .. Len(inserted) : inserted[k].collab_type = "DatabaseRow"}

\* C13: after a successful duplicate of a published database, every row id in
\* the row_orders of every view of the persisted database collab is the id of
\* a DatabaseRow collab persisted by this call, and every such row collab
\* carries its new row id and the new database id.
C13_DatabaseRowsRewritten ==
  (dup_result = "Ok" /\ root.ctype = "Database") =>
    \A k \in 1 .. Len(inserted) :
      inserted[k].collab_type = "Database" =>
        LET db == inserted[k] IN
        /\ \A v \in 1 .. Len(db.views) : \A j \in 1 .. Len(db.views[v]) :
             \E r \in PersistedRows : inserted[r].oid = db.views[v][j]
        /\ \A r \in PersistedRows :
             /\ inserted[r].oid.kind = "new"
             /\ inserted[r].id = inserted[r].oid
             /\ inserted[r].database_id = db.database_id

\* The msg_ids of a run of staged messages go up strictly
StrictlyIncreasing(q) ==
  \A i, j \in 1 .. Len(q) : i < j => q[i].msg_id < q[j].msg_id

\* The sink's queue after a step: the old queue, less its oldest message if
\* the step settled it, followed by the messages the step queued
SettledThenQueued(old, new, counter) ==
  \E k \in {0, 1} :
    /\ k <= Len(old)
    /\ Len(new) >= Len(old) - k
    /\ SubSeq(new, 1, Len(old) - k) = SubSeq(old, k + 1, Len(old))
    /\ \A i \in (Len(old) - k + 1) .. Len(new) : new[i].msg_id > counter

\* C14: messages leave the sink in the order they were queued and their
\* msg_ids go up strictly, whichever of the observer, the catch-up tasks and
\* the application queues them: the staged msg_ids always go up strictly, no
\* step reorders the staged messages or removes any but the oldest, and every
\* message a step queues has a msg_id above all handed out before.
C14_SinkOrder ==
  /\ [](StrictlyIncreasing(sink_queue))
  /\ [][SettledThenQueued(sink_queue, sink_queue', msg_id_counter)]_vars

C14_Witness ==
  /\ Len(sink_queue) >= 3
  /\ \E i, j, k \in 1 .. Len(sink_queue) :
       /\ sink_queue[i].kind = "ClientUpdateSync"
       /\ sink_queue[j].kind = "ClientInitSync"
       /\ sink_queue[k].kind = "ServerInitSync"
  /\ \E i \in 1 .. Len(tasks) : tasks[i].st = "done"
  /\ app_queued > 0

\* C15: the observer loop is left only when the stream ends or yields an
\* error (or the replica or the sink is gone), or on an
\* OverrideWithIncorrectData fault; after any other message, faulty or not, it
\* is still running.
C15_TerminationCauses ==
  [][ /\ (observer = "running" /\ observer' # "running") =>
           (received' = received \/ last'.res.err = "OverrideWithIncorrectData")
      /\ (received' = received + 1) =>
           (observer' = "running" <=> last'.res.err # "OverrideWithIncorrectData")
    ]_vars

\* C16: when the root view has no published data, duplicate returns
\* RecordNotFound, the transaction is rolled back, no collab is persisted, the
\* folder is not changed and nothing is broadcast.
C16_RootNotPublished ==
  (dup_pc = "done" /\ ~published[root.src].found) =>
    /\ dup_result = "RecordNotFound"
    /\ folder = [NewFolder EXCEPT !.txn = "rolled back"]
    /\ inserted = <<>>
    /\ views_to_add = <<>>

C16_Witness ==
  /\ dup_pc = "done"
  /\ ~published[root.src].found
  /\ root.ctype = "Document"
  /\ dup_result = "RecordNotFound"
  /\ \E p \in Pages : published[p].found

\* C17: in every state, the states inside check_ack_broadcast_contiguous and
\* every interleaving of concurrent callers included, miss_update_strikes is
\* in [0, 2].
C17_StrikesBounded ==
  seq_num_counter.miss_update_counter \in 0 .. StrikeLimit

\* C18 as claimed: broadcast_seq goes down only in the resetting step of
\* check_ack_broadcast_contiguous.
C18_BroadcastSeqMonotone ==
  seq_num_counter.broadcast_seq_counter < pre.broadcast_seq_counter =>
    (last_op.op = "check_ack_broadcast_contiguous" /\ last_op.ret.err = "MissUpdates")

\* C18: broadcast_seq goes down only in store_broadcast_seq_num(n) with n
\* below the stored value, which becomes n; store_ack_seq_num and the two
\* checks, the reset to ack_seq included, never lower it.
C18_LoweredOnlyByOlderBroadcast ==
  seq_num_counter.broadcast_seq_counter < pre.broadcast_seq_counter =>
    /\ last_op.op = "store_broadcast_seq_num"
    /\ last_op.arg = seq_num_counter.broadcast_seq_counter

C18_Witness ==
  /\ last_op.op = "store_broadcast_seq_num"
  /\ seq_num_counter.broadcast_seq_counter < pre.broadcast_seq_counter
  /\ seq_num_counter.broadcast_seq_counter > 0


\* C19: once a view is published, every client, the unauthenticated one
\* included, reads its metadata, its info and its blob; the blob read is the
\* one published last for that view and publish name; once the view is
\* unpublished, reading it by namespace and publish name returns RecordNotFound.
C19_PublishedLifecycle ==
  LET v == response.arg
  IN /\ response.op = "get_published_collab" =>
          /\ publish_hist[v].state = "published" =>
               response.result = AppOk(MyCustomMetadata(v))
          /\ publish_hist[v].state = "unpublished" =>
               response.result = AppError("RecordNotFound")
     /\ response.op = "get_published_collab_info" =>
          (publish_hist[v].state = "published" =>
             response.result = AppOk([namespace |-> MyNamespace,
                                      publish_name |-> PublishNameOf(v),
                                      view_id |-> v]))
     /\ response.op = "get_published_collab_blob" =>
          /\ publish_hist[v].state = "published" =>
               response.result = AppOk(publish_hist[v].blob)
          /\ publish_hist[v].state = "unpublished" =>
               response.result = AppError("RecordNotFound")

\* The unauthenticated client reads the blob a view was published with again,
\* while the other view, unpublished, is gone
C19_Witness ==
  /\ response.op = "get_published_collab_blob"
  /\ response.client = "guest"
  /\ publish_hist[response.arg].state = "published"
  /\ publish_hist[response.arg].replaced
  /\ response.result = AppOk(2)
  /\ \E w \in ViewIds : publish_hist[w].state = "unpublished"

\* C20: a delete by the unauthenticated client fails with NotLoggedIn, a delete
\* by a user who is neither the page owner nor the comment's creator fails
\* with UserUnAuthorized, and both leave the comments alone; a permitted
\* delete sets is_deleted of that comment and nothing else. No call makes the
\* comments returned fewer, or changes a comment's id or reply_comment_id.
C20_SoftDeleteAuthorised ==
  [][/\ Len(get_published_view_comments(comments'))
          >= Len(get_published_view_comments(comments))
     /\ \A i \in CommentIds(comments) :
          /\ comments'[i].comment_id = comments[i].comment_id
          /\ comments'[i].reply_comment_id = comments[i].reply_comment_id
     /\ response'.op = "delete_comment_on_published_view" =>
          LET c == response'.client
              id == response'.arg
          IN IF ~logged_in(c)
             THEN /\ response'.result = AppError("NotLoggedIn")
                  /\ comments' = comments
             ELSE IF c # "page_owner" /\ c # comments[id].user
             THEN /\ response'.result = AppError("UserUnAuthorized")
                  /\ comments' = comments
             ELSE /\ response'.result = AppOk(0)
                  /\ comments' = [comments EXCEPT ![id].is_deleted = TRUE]]_vars

\* The first user has deleted their own comment, which another user's reply
\* still refers to, and the page owner's comment is untouched
C20_Witness ==
  /\ response.op = "delete_comment_on_published_view"
  /\ response.client = "first_user"
  /\ response.result = AppOk(0)
  /\ Len(comments) = 3
  /\ comments[1].user = "page_owner" /\ ~comments[1].is_deleted
  /\ comments[2].user = "first_user" /\ comments[2].is_deleted
  /\ comments[3].user = "second_user" /\ comments[3].reply_comment_id = 2
  /\ ~comments[3].is_deleted

\* C21: for every current broadcast_seq and every n, the largest value of the
\* counter included, check_broadcast_contiguous(n) returns
\* MissUpdates(BroadcastSeqNotContinuous{current, expected: n}) exactly when
\* current > 0 and n > current + 1 as integers, returns Ok otherwise, and
\* leaves the three counters as they were.
C21_CheckBroadcastExact ==
  last_op.op = "check_broadcast_contiguous" =>
    /\ last_op.ret =
         IF pre.broadcast_seq_counter > 0
              /\ last_op.arg > pre.broadcast_seq_counter + 1
         THEN MissUpdates("BroadcastSeqNotContinuous",
                          pre.broadcast_seq_counter, last_op.arg)
         ELSE Ok
    /\ seq_num_counter = pre

\* C22: after store_ack_seq_num(n), ack_seq is n whether n is above, equal to
\* or below the value before, the value returned is the ack_seq before,
\* broadcast_seq is n if it was 0 before and unchanged otherwise, and the
\* strikes are unchanged.
C22_StoreAckExact ==
  last_op.op = "store_ack_seq_num" =>
    /\ seq_num_counter.ack_seq_counter = last_op.arg
    /\ last_op.val = pre.ack_seq_counter
    /\ seq_num_counter.broadcast_seq_counter =
         IF pre.broadcast_seq_counter = 0 THEN last_op.arg
         ELSE pre.broadcast_seq_counter
    /\ seq_num_counter.miss_update_counter = pre.miss_update_counter

\* An ack below the one before, with broadcast_seq set and a strike counted
C22_Witness ==
  /\ last_op.op = "store_ack_seq_num"
  /\ last_op.arg < pre.ack_seq_counter
  /\ pre.broadcast_seq_counter > 0
  /\ pre.broadcast_seq_counter # last_op.arg
  /\ pre.miss_update_counter = 1
  /\ seq_num_counter.ack_seq_counter = last_op.arg

\* C23: after the observer has handled a ServerBroadcast with seq_num n whose
\* payload was applied without a protocol error, broadcast_seq is n, whether
\* or not check_broadcast_contiguous reported a gap for it.
C23_BroadcastSeqStored ==
  (last.kind = "ServerBroadcast" /\ last.checked) =>
    seq_num_counter.broadcast_seq_counter = last.seq_num

\* C24: for every inbound message handed to process_remote_message,
\* sink.notify_next() is called: also for an ack with code CannotApplyUpdate
\* or MissUpdate, for a message validate_response returned an error for, and
\* for a message whose payload failed in the protocol.
C24_AlwaysNotified == last.kind # "none" => last.notified

\* The message taken by this step is an ack with a code that is an error
AckWithErrorCode ==
  /\ received' = received + 1
  /\ last'.kind = "ClientAck"
  /\ last'.code \in {"CannotApplyUpdate", "MissUpdate"}

\* C25: an ack with code CannotApplyUpdate raises CannotApplyUpdate, one with
\* code MissUpdate raises MissUpdates with the ack's payload as state vector
\* and reason ServerMissUpdates; the three counters are unchanged,
\* validate_response is not called and nothing is applied to the replica.
C25_AckCodeFirst ==
  [][AckWithErrorCode =>
       /\ last'.res = IF last'.code = "CannotApplyUpdate"
                      THEN CannotApplyUpdate
                      ELSE [err |-> "MissUpdates", reason |-> "ServerMissUpdates",
                            x |-> 0, y |-> 0,
                            sv |-> [some |-> TRUE, v |-> last'.payload]]
       /\ seq_num_counter' = seq_num_counter
       /\ last'.validated = "not called"
       /\ Applied(last'.trace) = <<>>
       /\ collab_updates' = collab_updates]_vars

\* A MissUpdate ack that answers the oldest outstanding message, carries a
\* payload and a seq_num above the counters
C25_Witness ==
  /\ last.kind = "ClientAck"
  /\ last.code = "MissUpdate"
  /\ last.payload = <<Update>>
  /\ last.res.sv = [some |-> TRUE, v |-> <<Update>>]
  /\ sink_queue # <<>>
  /\ Head(sink_queue).msg_id = last.msg_id
  /\ last.seq_num > seq_num_counter.ack_seq_counter
  /\ ~last.locked

\* C26: a message with a msg_id is applied to the replica if and only if
\* validate_response returned true for it; when that returned false or an
\* error the message leaves the replica unchanged.
C26_AppliedIffValid ==
  (last.kind \in {"ServerInit", "ClientAck"} /\ last.payload # <<>>) =>
    /\ last.validated # "true" =>
         (Applied(last.trace) = <<>> /\ last.applied = 0)
    /\ (last.validated = "true" /\ last.res.err = "Ok") =>
         Len(Applied(last.trace)) = Len(last.payload)

\* Every frame handed to the library that has a reply is followed at once by
\* one queued message, of kind init for a SyncStep1 and of kind ClientUpdateSync
\* for every other frame; a frame without reply is followed by none.
RepliesWrappedAs(trace, payload, init) ==
  LET n == Len(Applied(trace))
      \* the position in the trace of the k-th applied frame
      pos(k) == CHOOSE i \in 1 .. Len(trace) :
                  /\ trace[i].ev = "apply"
                  /\ Len(Applied(SubSeq(trace, 1, i))) = k
      next(k) == IF k = n THEN Len(trace) + 1 ELSE pos(k + 1)
  IN /\ n <= Len(payload)
     /\ \A k \in 1 .. n :
          IF payload[k].reply
          THEN /\ next(k) = pos(k) + 2
               /\ trace[pos(k) + 1].kind =
                    IF payload[k].kind = "SyncStep1" THEN init ELSE "ClientUpdateSync"
          ELSE next(k) = pos(k) + 1
     /\ n = 0 => trace = <<>>

\* C27 as claimed: a reply payload makes exactly one queued message, a
\* ClientInitSync if the frame was a SyncStep1 and a ClientUpdateSync for every
\* other frame; no reply payload, nothing queued.
C27_ReplyWrapped ==
  last.kind # "none" => RepliesWrappedAs(last.trace, last.payload, "ClientInitSync")

\* C27 as amended: the reply to a SyncStep1 is queued as a ServerInitSync.
C27_ReplyWrappedAsServerInit ==
  last.kind # "none" => RepliesWrappedAs(last.trace, last.payload, "ServerInitSync")

\* A payload of a SyncStep1 and an awareness query: two replies, one of each
C27_Witness ==
  /\ last.payload = <<SyncStep1, AwarenessQuery>>
  /\ last.trace = << [ev |-> "apply", kind |-> "SyncStep1"],
                     [ev |-> "queue", kind |-> "ServerInitSync"],
                     [ev |-> "apply", kind |-> "Awareness"],
                     [ev |-> "queue", kind |-> "ClientUpdateSync"] >>
  /\ last.enq = 2

\* A frame on which the loop is left with an error
FrameFails(frame) ==
  \/ frame.kind \in {"Undecodable", "FailingUpdate", "PanickingUpdate"}
  \/ frame.kind = "SyncStep1" /\ collab_type = "Folder" /\ ~folder_ok

\* C28: the frames of a payload are applied in wire order, the reply of frame
\* k is queued before frame k + 1 is applied, and once a frame fails no frame
\* after it is applied.
C28_WireOrder ==
  last.kind # "none" =>
    LET n == Len(Applied(last.trace)) IN
    /\ n <= Len(last.payload)
    /\ \A k \in 1 .. n :
         /\ Applied(last.trace)[k].kind = last.payload[k].kind
         /\ ~FrameFails(last.payload[k])
    /\ \A i \in 1 .. Len(last.trace) :
         last.trace[i].ev = "queue" =>
           /\ i > 1
           /\ last.trace[i - 1].ev = "apply"
           /\ last.payload[Len(Applied(SubSeq(last.trace, 1, i)))].reply
    /\ \A i \in 1 .. Len(last.trace) - 1 :
         (last.trace[i].ev = "apply"
            /\ last.payload[Len(Applied(SubSeq(last.trace, 1, i)))].reply)
           => last.trace[i + 1].ev = "queue"
    /\ last.res.err \in {"ProtocolError", "Internal", "OverrideWithIncorrectData"} =>
         (n < Len(last.payload) /\ FrameFails(last.payload[n + 1]))

\* The reply to the awareness query is queued, the library rejects the frame
\* behind it, and the update behind that one is not applied
C28_Witness ==
  /\ last.payload = <<AwarenessQuery, FailingUpdate, Update>>
  /\ last.trace = << [ev |-> "apply", kind |-> "Awareness"],
                     [ev |-> "queue", kind |-> "ClientUpdateSync"] >>
  /\ last.res.err = "ProtocolError"
  /\ last.applied = 0

\* C29: a panic while an inbound payload is applied comes out as an Internal
\* error: the observer keeps running, spawns no catch-up task, queues no init
\* sync, and takes the next inbound message.
C29_PanicIsInternal ==
  [][(received' = received + 1 /\ last'.payload # <<>> /\ ~last'.locked
        /\ last'.validated \in {"true", "not called"}
        /\ last'.code \notin {"CannotApplyUpdate", "MissUpdate"}
        /\ Len(Applied(last'.trace)) < Len(last'.payload)
        /\ last'.payload[Len(Applied(last'.trace)) + 1].kind = "PanickingUpdate") =>
       /\ last'.res.err = "Internal"
       /\ observer' = "running"
       /\ tasks' = tasks
       /\ Len(sink_queue') =
            Len(sink_queue) - (IF last'.validated = "true" THEN 1 ELSE 0)
              + Len(last'.trace) - Len(Applied(last'.trace))]_vars

\* The message after one that panicked has been handled
C29_Witness ==
  /\ last.prev = "Internal"
  /\ last.kind = "ServerBroadcast"
  /\ last.res.err = "Ok"
  /\ last.applied = 1
  /\ last.enq = 1
  /\ tasks = <<>>
  /\ observer = "running"

\* C30: no payload is lost to a busy replica lock: once a message has been
\* handled with the lock free, every frame of the payloads whose handling
\* returned Ok so far has been applied, at once or later.
C30_NoPayloadLost ==
  (last.kind # "none" /\ ~last.locked /\ last.res.err = "Ok") => last.owed = 0

\* C31: under fair scheduling of the spawned tasks, every MissUpdates fault
\* (the i-th fault spawns the i-th task) is eventually followed by a catch-up
\* sync started from pull_missing_updates by the task of that fault or of a
\* later one.
C31_FaultLeadsToCatchUp ==
  \A i \in 1 .. MaxTasks :
    (Len(tasks) >= i) ~> (\E j \in i .. Len(tasks) : tasks[j].synced)

\* C32: a CannotApplyUpdate fault is handled in the same turn of the loop,
\* without a task: with the replica's lock free, start_sync is called with
\* reason ServerCannotApplyUpdate and queues one init sync; with the lock busy
\* nothing is queued; either way the catch-up tasks and their tokens stay as
\* they are and the observer keeps running.
C32_CannotApplyAtOnce ==
  [][ (received' = received + 1 /\ last'.res.err = "CannotApplyUpdate") =>
        /\ tasks' = tasks
        /\ observer' = "running"
        /\ IF collab_lock
           THEN /\ sink_queue' = sink_queue
                /\ msg_id_counter' = msg_id_counter
                /\ last'.sync = <<>>
           ELSE /\ sink_queue' =
                     Append(sink_queue, [msg_id |-> msg_id_counter + 1,
                                         kind |-> "ClientInitSync"])
                /\ msg_id_counter' = msg_id_counter + 1
                /\ last'.sync =
                     <<[ev |-> "start_sync", kind |-> "ServerCannotApplyUpdate"]>>
    ]_vars

\* a CannotApplyUpdate fault that found the lock busy, beside a catch-up task
\* waiting in its debounce with its token not cancelled
C32_Witness ==
  /\ last.res.err = "CannotApplyUpdate"
  /\ last.locked
  /\ last.enq = 0
  /\ observer = "running"
  /\ Len(tasks) = 1 /\ tasks[1].st = "debounce" /\ ~tasks[1].cancelled

\* What C33 says of the tokens: a fault cancels the token installed before
\* and spawns one new task, whose token is the one installed and not cancelled
TokenReplaced ==
  Len(tasks') # Len(tasks) =>
    /\ Len(tasks') = Len(tasks) + 1
    /\ \A i \in 1 .. Len(tasks) : tasks'[i].cancelled /\ tasks'[i].st = tasks[i].st
    /\ tasks'[Len(tasks')] = NewTask

\* C33 as claimed: every fault cancels the token installed before, installs a
\* new one and spawns its task, and a task whose 3 seconds of debounce have
\* elapsed is not ended by a cancellation.
C33_ElapsedNotInterrupted ==
  [][ /\ TokenReplaced
      /\ \A i \in 1 .. Len(tasks) :
           (tasks[i].st = "pulling" \/ (tasks[i].st = "debounce" /\ sleep_elapsed(tasks[i])))
             => tasks'[i].st # "cancelled"
    ]_vars

\* C33: every fault cancels the token installed before, installs a new one and
\* spawns its task; a task is ended by a cancellation only out of its select!,
\* with its token cancelled; a task that has left the select! by the branch of
\* the sleep goes on to the end of pull_missing_updates whatever becomes of
\* its token.
C33_CancelOnlyInSelect ==
  /\ [][ /\ TokenReplaced
         /\ \A i \in 1 .. Len(tasks) :
              /\ tasks[i].st = "pulling" => tasks'[i].st \in {"pulling", "done"}
              /\ (tasks'[i].st = "cancelled" /\ tasks[i].st # "cancelled")
                   => (tasks[i].st = "debounce" /\ tasks[i].cancelled)
       ]_vars
  /\ \A i \in 1 .. MaxTasks :
       (Len(tasks) >= i /\ tasks[i].st = "pulling")
         ~> (Len(tasks) >= i /\ tasks[i].st = "done")

\* a task that was cancelled inside pull_missing_updates and has started its
\* catch-up sync, beside the task of the fault that cancelled it
C33_Witness ==
  /\ Len(tasks) = 2
  /\ tasks[1].st = "done" /\ tasks[1].cancelled /\ tasks[1].synced
  /\ tasks[1].sup = Debounce
  /\ tasks[2].st = "debounce"

\* C34: in every persisted document, a page that is mentioned in the block
\* deltas and in the text map carries the same page_id in both places: the id
\* of the copy made by this call, or the source id it was when the target is
\* not published.
C34_MentionsAgree ==
  \A k \in PersistedDocuments :
    LET d == inserted[k] IN
    \A i \in 1 .. Len(d.delta) :
      LET p == published[d.src].delta[i] IN
      p \in DOMAIN d.text =>
        /\ d.delta[i] = d.text[p]
        /\ IF published[p].found
           THEN d.delta[i].kind = "new"
           ELSE d.delta[i] = SrcId(p)

\* The source view a view of the folder was copied from, as duplicated_refs
\* has it
SourcesOf(vid) == {p \in Pages : duplicated_refs[p] = RefSome(vid)}

\* C35: after a successful duplicate the folder holds the root copy, whose
\* parent is dest_view_id, followed by views_to_add; the root copy is not in
\* views_to_add, every other source view that was copied has its view in
\* views_to_add exactly once, and the parent of each of these is the new id,
\* drawn earlier, of a copied document whose block delta mentions its source.
C35_ParentsSet ==
  dup_result = "Ok" =>
    /\ folder.views # <<>>
    /\ folder.views = <<folder.views[1]>> \o views_to_add
    /\ folder.views[1].parent_view_id = DestViewId
    /\ folder.views[1].id = duplicated_refs[root.src].id
    /\ \A k \in 1 .. Len(views_to_add) : views_to_add[k].id # folder.views[1].id
    /\ \A p \in Pages \ {root.src} :
         duplicated_refs[p].some =>
           Cardinality({k \in 1 .. Len(views_to_add) :
                          views_to_add[k].id = duplicated_refs[p].id}) = 1
    /\ \A k \in 1 .. Len(views_to_add) :
         LET v == views_to_add[k] IN
         /\ v.parent_view_id.kind = "new"
         /\ v.parent_view_id.id < v.id.id
         /\ \E q \in SourcesOf(v.parent_view_id) :
              /\ IsPublishedDocument(q)
              /\ \E s \in SourcesOf(v.id) : s \in Range(published[q].delta)

\* the root copy and the copy of the page it mentions, which mentions the
\* root back
C35_Witness ==
  /\ dup_result = "Ok"
  /\ Len(folder.views) = 2
  /\ folder.views[2].parent_view_id = folder.views[1].id
  /\ root.src \in Range(published[inserted[1].src].delta)

\* The new ids listed in the children of the views of the folder, with the
\* index of the listing view
ChildListings ==
  {<<k, j>> \in (1 .. Len(folder.views)) \X (1 .. MaxMentions) :
     j <= Len(folder.views[k].children)}

\* C36: the views a successful duplicate inserts form a tree rooted at the
\* root copy: every new view id is listed at most once over all children
\* lists, only in the children list of the view its parent_view_id names, and
\* never in its own.
C36_ViewsFormTree ==
  dup_result = "Ok" =>
    /\ \A a, b \in ChildListings :
         folder.views[a[1]].children[a[2]] = folder.views[b[1]].children[b[2]]
           => a = b
    /\ \A a \in ChildListings :
         LET parent == folder.views[a[1]]
             cid == parent.children[a[2]]
         IN /\ cid # parent.id
            /\ \E k \in 1 .. Len(folder.views) :
                 folder.views[k].id = cid /\ folder.views[k].parent_view_id = parent.id

\* C37: for the folder and for the workspace database collab, an update is
\* broadcast only after the mutated collab was persisted: every broadcast in
\* the log of deep_copy comes after the persist of the same collab.
C37_PersistBeforeBroadcast ==
  \A i \in 1 .. Len(folder.log) :
    /\ folder.log[i] = "broadcast folder" =>
         \E j \in 1 .. i - 1 : folder.log[j] = "persist folder"
    /\ folder.log[i] = "broadcast ws db" =>
         \E j \in 1 .. i - 1 : folder.log[j] = "persist ws db"

\* C38: whenever duplicate returns an error, no folder holding the new views
\* has been persisted or broadcast.
C38_FailsAtomically ==
  (dup_pc = "done" /\ dup_result # "Ok") =>
    /\ folder.views = <<>>
    /\ folder.persisted = 0
    /\ folder.broadcast = 0

\* The root deep copy yields no view: the root is not published, or its
\* collab type is one that is not copied
RootYieldsNone == ~published[root.src].found \/ root.ctype = "DatabaseRow"

\* C39: duplicate returns RecordNotFound exactly when the root deep copy
\* yields no view, and every other failure is returned as Unhandled.
C39_ErrorKinds ==
  (dup_pc = "done" /\ dup_result # "Ok") =>
    /\ dup_result = "RecordNotFound" <=> RootYieldsNone
    /\ dup_result \in {"RecordNotFound", "Unhandled"}

\* C40: between two turns of the loop the core holds only weak references:
\* once the application has dropped the replica, no spawned task holds an Arc
\* of it and no task starts a catch-up sync on it.
C40_WeakReferencesOnly ==
  [][ ~collab_arc' =>
        /\ \A i \in 1 .. Len(tasks') : ~holds_collab(tasks'[i])
        /\ \A i \in 1 .. Len(tasks) : tasks'[i].synced => tasks[i].synced
    ]_vars

====
